---- MODULE Spec2Model ----
(***************************************************************************)
(* A model of the cached guild of the Discord client library               *)
(* (src/discord api/discord/guild.py), of the connection session the       *)
(* specification describes, of the webhook adapters (webhook.py) and of    *)
(* the Paginator (ext/commands/formatter.py).  The guild is one record     *)
(* holding the slots of Guild; every method is an operator from an object  *)
(* (and its arguments) to the object afterwards, the value returned and    *)
(* the exception raised.                                                   *)
(***************************************************************************)
EXTENDS Integers, Sequences, FiniteSets, TLC

VARIABLES
    guild,      \* the Guild object: its slots, and the Role objects built for it
    last,       \* the last operation applied: its name, arguments, result, exception
    session,    \* the connection session (state, session id, sequence, backoff)
    request,    \* the webhook adapter's request call in progress
    paginator,  \* the Paginator object
    embed       \* the Embed object

vars == <<guild, last, session, request, paginator, embed>>

(***************************************************************************)
(* Values                                                                  *)
(***************************************************************************)
\* Python's None, for the slots that hold strings.
None == "None"
\* A key that the payload does not carry.
Absent == "absent"
\* No exception was raised.
NoError == "none"

\* Optional integers and references are sets: {} is None (or a slot that was
\* never assigned), {x} holds x.
Some(x) == {x}
Nothing == {}
The(s) == CHOOSE x \in s : TRUE

Range(f) == {f[x] : x \in DOMAIN f}
Min(a, b) == IF a <= b THEN a ELSE b

\* dict.pop(key) / del dict[key] for a key the dict holds.
Pop(f, k) == [x \in DOMAIN f \ {k} |-> f[x]]
\* dict[key] = value.
Put(f, k, v) == [x \in DOMAIN f \cup {k} |-> IF x = k THEN v ELSE f[x]]

(***************************************************************************)
(* Bounds of the model                                                     *)
(***************************************************************************)
\* Role objects constructed over one run (snapshot roles and role-create events).
MaxRoleObjs == 5
\* Roles besides the default role in the snapshot a guild is built from.
MaxInitRoles == 2

\* The guild's id; the default (@everyone) role carries the same id.
GuildId == 1
RoleIds == {2, 3}
\* "roles get added to the bottom (position 1, pos 0 is @everyone)"
BottomPosition == 1

UserIds == {11, 12}
\* Channels of the guild's snapshot.
ChannelIds == {21, 22}

(***************************************************************************)
(* Role                                                                    *)
(***************************************************************************)
\* Role(guild=..., data=..., state=...): a new Role object holding the
\* payload's id and position; returns the guild with the object allocated.
\* The object's reference is its index in guild.objs.
Role(g, data) ==
    [g EXCEPT !.objs = Append(@, [id |-> data.id, position |-> data.position])]

\* The reference of the Role object constructed last.
NewestRole(g) == Len(g.objs)

\* Guild.get_role
get_role(g, role_id) ==
    IF role_id \in DOMAIN g._roles THEN Some(g._roles[role_id]) ELSE Nothing

\* r.position += (not r.is_default()) for one role object; Role.is_default():
\* the @everyone role has the guild's id.
BumpedUp(g, ref) ==
    IF g.objs[ref].id = g.id THEN g.objs[ref].position ELSE g.objs[ref].position + 1

\* Guild._add_role with every stored role bumped, the default role included:
\* a faulty variant of _add_role.
_add_role_bump_all(g, ref) ==
    [g EXCEPT
        !.objs = [r \in DOMAIN g.objs |->
                    IF r \in Range(g._roles)
                    THEN [g.objs[r] EXCEPT !.position = @ + 1]
                    ELSE g.objs[r]],
        !._roles = Put(g._roles, g.objs[ref].id, ref)]

\* Guild._add_role with nothing stored: a faulty variant of _add_role.
_add_role_no_store(g, ref) ==
    [g EXCEPT
        !.objs = [r \in DOMAIN g.objs |->
                    IF r \in Range(g._roles)
                    THEN [g.objs[r] EXCEPT !.position = BumpedUp(g, r)]
                    ELSE g.objs[r]]]

\* Guild._add_role(role): every role in the map that is not the default role
\* moves up by one, then the role is stored under its id.
_add_role(g, ref) ==
    [g EXCEPT
        !.objs = [r \in DOMAIN g.objs |->
                    IF r \in Range(g._roles)
                    THEN [g.objs[r] EXCEPT !.position = BumpedUp(g, r)]
                    ELSE g.objs[r]],
        !._roles = Put(g._roles, g.objs[ref].id, ref)]

\* r.position -= r.position > role.position for one role object.
BumpedDown(g, ref, removed) ==
    IF g.objs[ref].position > g.objs[removed].position
    THEN g.objs[ref].position - 1
    ELSE g.objs[ref].position

\* Guild._remove_role that treats an unknown id as dict.pop(id, None) would:
\* a faulty variant of _remove_role.
_remove_role_silent(g, role_id) ==
    IF role_id \notin DOMAIN g._roles
    THEN [g |-> g, ret |-> Nothing, raised |-> NoError]
    ELSE LET removed == g._roles[role_id]
             rest == Pop(g._roles, role_id)
         IN  [g |-> [g EXCEPT
                        !._roles = rest,
                        !.objs = [r \in DOMAIN g.objs |->
                                    IF r \in Range(rest)
                                    THEN [g.objs[r] EXCEPT !.position = BumpedDown(g, r, removed)]
                                    ELSE g.objs[r]]],
              ret |-> Some(removed),
              raised |-> NoError]

\* Guild._remove_role that moves down the roles at or above the removed one:
\* a faulty variant of _remove_role.
_remove_role_off_by_one(g, role_id) ==
    IF role_id \notin DOMAIN g._roles
    THEN [g |-> g, ret |-> Nothing, raised |-> "KeyError"]
    ELSE LET removed == g._roles[role_id]
             rest == Pop(g._roles, role_id)
         IN  [g |-> [g EXCEPT
                        !._roles = rest,
                        !.objs = [r \in DOMAIN g.objs |->
                                    IF r \in Range(rest)
                                       /\ g.objs[r].position >= g.objs[removed].position
                                    THEN [g.objs[r] EXCEPT !.position = @ - 1]
                                    ELSE g.objs[r]]],
              ret |-> Some(removed),
              raised |-> NoError]

\* Guild._remove_role(role_id): pops the role (KeyError when the id is not
\* in the map, before anything changed), then moves every remaining role that
\* was above the removed one down by one.  Returns the removed role.
_remove_role(g, role_id) ==
    IF role_id \notin DOMAIN g._roles
    THEN [g |-> g, ret |-> Nothing, raised |-> "KeyError"]
    ELSE LET removed == g._roles[role_id]
             rest == Pop(g._roles, role_id)
         IN  [g |-> [g EXCEPT
                        !._roles = rest,
                        !.objs = [r \in DOMAIN g.objs |->
                                    IF r \in Range(rest)
                                    THEN [g.objs[r] EXCEPT !.position = BumpedDown(g, r, removed)]
                                    ELSE g.objs[r]]],
              ret |-> Some(removed),
              raised |-> NoError]

(***************************************************************************)
(* Members, channels, voice states                                         *)
(***************************************************************************)
\* Guild.get_channel: the channel stored under the id, or None.  The id
\* itself may be None.
get_channel(g, channel_id) ==
    IF channel_id # Nothing /\ The(channel_id) \in DOMAIN g._channels
    THEN channel_id
    ELSE Nothing

\* Guild.get_member
get_member(g, user_id) ==
    IF user_id \in DOMAIN g._members THEN Some(user_id) ELSE Nothing

\* Member(data=..., guild=..., state=...)
Member(mdata) == [id |-> mdata.id, status |-> "offline", activity |-> None]

\* Guild._add_member
_add_member(g, member) ==
    [g EXCEPT !._members = Put(@, member.id, [status |-> member.status,
                                               activity |-> member.activity])]

\* Guild._remove_member: dict.pop(id, None)
_remove_member(g, member_id) ==
    IF member_id \in DOMAIN g._members
    THEN [g EXCEPT !._members = Pop(@, member_id)]
    ELSE g

\* Guild._add_channel: self._channels[channel.id] = channel.  A dict keeps
\* its keys in insertion order (_channel_keys): a new key goes last, a key
\* already held keeps its place.
_add_channel(g, channel) ==
    [g EXCEPT !._channels = Put(@, channel.id, [type |-> channel.type,
                                                 position |-> channel.position,
                                                 category_id |-> channel.category_id]),
              !._channel_keys = IF channel.id \in DOMAIN g._channels THEN @
                                ELSE Append(@, channel.id)]

\* Guild._remove_channel: dict.pop(id, None)
_remove_channel(g, channel_id) ==
    IF channel_id \in DOMAIN g._channels
    THEN [g EXCEPT !._channels = Pop(@, channel_id),
                   !._channel_keys = SelectSeq(@, LAMBDA k : k # channel_id)]
    ELSE g

\* VoiceState(data=..., channel=...) and VoiceState._update(data, channel):
\* the flags of the payload and the channel given.
VoiceState(data, channel) ==
    [channel |-> channel, mute |-> data.mute, deaf |-> data.deaf]

\* Guild._update_voice_state whose `before` is the state object itself, not a
\* copy of it: a faulty variant of _update_voice_state.
_update_voice_state_no_copy(g, data, channel_id) ==
    LET user_id == data.user_id
        channel == get_channel(g, channel_id)
        after   == VoiceState(data, channel)
    IN  IF user_id \in DOMAIN g._voice_states
        THEN [g |-> [g EXCEPT !._voice_states =
                        IF channel = Nothing THEN Pop(@, user_id)
                        ELSE Put(@, user_id, after)],
              ret |-> [member |-> get_member(g, user_id),
                       before |-> after,
                       after  |-> after]]
        ELSE [g |-> [g EXCEPT !._voice_states = Put(@, user_id, after)],
              ret |-> [member |-> get_member(g, user_id),
                       before |-> VoiceState(data, Nothing),
                       after  |-> after]]

\* Guild._update_voice_state(data, channel_id).  With a stored state for the
\* user: the state is popped when the channel is None (or unknown) and kept
\* otherwise, `before` is a copy of it and the state is updated in place.
\* Without one (KeyError): `after` and `before` are built from the payload,
\* `before` with no channel, and `after` is stored.
_update_voice_state(g, data, channel_id) ==
    LET user_id == data.user_id
        channel == get_channel(g, channel_id)
        after   == VoiceState(data, channel)
    IN  IF user_id \in DOMAIN g._voice_states
        THEN [g |-> [g EXCEPT !._voice_states =
                        IF channel = Nothing THEN Pop(@, user_id)
                        ELSE Put(@, user_id, after)],
              ret |-> [member |-> get_member(g, user_id),
                       before |-> g._voice_states[user_id],
                       after  |-> after]]
        ELSE [g |-> [g EXCEPT !._voice_states = Put(@, user_id, after)],
              ret |-> [member |-> get_member(g, user_id),
                       before |-> VoiceState(data, Nothing),
                       after  |-> after]]

(***************************************************************************)
(* Guild._from_data and Guild._sync                                        *)
(***************************************************************************)
\* The threshold of a "large" guild (self._member_count >= 250).
LargeThreshold == 250

\* dict.get(key, default)
Get(p, key, default) == IF p[key] = Absent THEN default ELSE p[key]

\* The members of the enumerations VoiceRegion, VerificationLevel and
\* ContentFilter, by payload value.
enums ==
    [VoiceRegion |->
        [v \in {"us_west", "eu_west"} |->
            IF v = "us_west" THEN "VoiceRegion.us_west" ELSE "VoiceRegion.eu_west"],
     VerificationLevel |->
        [v \in {"low", "high"} |->
            IF v = "low" THEN "VerificationLevel.low" ELSE "VerificationLevel.high"],
     ContentFilter |-> [v \in {"0"} |-> "ContentFilter.disabled"]]

\* enums.try_enum(cls, val): the member of the enumeration with that value,
\* or the value itself when the enumeration has none (None included).
try_enum(cls, val) == IF val \in DOMAIN cls THEN cls[val] ELSE val

\* utils._get_as_snowflake(data, key): None for an absent key, else
\* `value and int(value)`; ids travel as strings of digits.
SnowflakeOf == [s \in {"7", "21"} |-> IF s = "7" THEN 7 ELSE 21]
_get_as_snowflake(p, key) ==
    IF p[key] = Absent \/ p[key] = None THEN Nothing ELSE Some(SnowflakeOf[p[key]])

\* for r in guild.get('roles', []): self._roles[role.id] = Role(data=r)
RECURSIVE StoreRoles(_, _, _)
StoreRoles(g, roles, i) ==
    IF i > Len(roles) THEN g
    ELSE LET made == Role(g, roles[i])
         IN  StoreRoles([made EXCEPT !._roles = Put(@, roles[i].id, NewestRole(made))],
                        roles, i + 1)

\* for mdata in guild.get('members', []): self._add_member(Member(data=mdata))
RECURSIVE StoreMembers(_, _, _)
StoreMembers(g, members, i) ==
    IF i > Len(members) THEN g
    ELSE StoreMembers(_add_member(g, Member(members[i])), members, i + 1)

\* The presence loop of _sync: a presence of a user who is no member is skipped.
RECURSIVE SyncPresences(_, _, _)
SyncPresences(g, presences, i) ==
    IF i > Len(presences) THEN g
    ELSE LET pr == presences[i]
         IN  SyncPresences(
                IF get_member(g, pr.user_id) = Nothing THEN g
                ELSE [g EXCEPT !._members[pr.user_id] =
                        [status |-> pr.status, activity |-> pr.game]],
                presences, i + 1)

\* The channel loop of _sync: text, voice and category channels are added,
\* a channel of any other type is skipped.
RECURSIVE SyncChannels(_, _, _)
SyncChannels(g, channels, i) ==
    IF i > Len(channels) THEN g
    ELSE SyncChannels(
            IF channels[i].type \in {"text", "voice", "category"}
            THEN _add_channel(g, channels[i])
            ELSE g,
            channels, i + 1)

\* Guild._sync(data)
_sync(g, data) ==
    LET g1 == IF data.large = Nothing THEN g ELSE [g EXCEPT !._large = data.large]
        g2 == SyncPresences(g1, data.presences, 1)
    IN  SyncChannels(g2, data.channels, 1)

\* for obj in guild.get('voice_states', []):
\*     self._update_voice_state(obj, int(obj['channel_id']))
RECURSIVE StoreVoiceStates(_, _, _)
StoreVoiceStates(g, states, i) ==
    IF i > Len(states) THEN g
    ELSE StoreVoiceStates(
            _update_voice_state(g, states[i], Some(states[i].channel_id)).g,
            states, i + 1)

\* The slots _from_data assigns up to the member loop (lines 202-228).
FromDataHead(g, p) ==
    LET counted == IF p.member_count # Nothing /\ The(p.member_count) # 0
                   THEN [g EXCEPT !._member_count = p.member_count]
                   ELSE g
        scalars == [counted EXCEPT
                        !.name = Get(p, "name", None),
                        !.region = try_enum(enums.VoiceRegion, Get(p, "region", None)),
                        !.verification_level =
                            try_enum(enums.VerificationLevel, Get(p, "verification_level", None)),
                        !.explicit_content_filter =
                            try_enum(enums.ContentFilter, Get(p, "explicit_content_filter", "0")),
                        !.afk_timeout = Get(p, "afk_timeout", None),
                        !.icon = Get(p, "icon", None),
                        !.unavailable = Get(p, "unavailable", "False"),
                        !.id = p.id,
                        !._roles = <<>>]
        withRoles == StoreRoles(scalars, p.roles, 1)
        more == [withRoles EXCEPT
                        !.mfa_level = Get(p, "mfa_level", None),
                        !.emojis = p.emojis,
                        !.features = p.features,
                        !.splash = Get(p, "splash", None),
                        !._system_channel_id = _get_as_snowflake(p, "system_channel_id")]
    IN  StoreMembers(more, p.members, 1)

\* The slots _from_data assigns after the large flag (lines 233-237).
FromDataTail(g, p) ==
    StoreVoiceStates(
        [g EXCEPT !.owner_id = _get_as_snowflake(p, "owner_id"),
                  !.afk_channel = get_channel(g, _get_as_snowflake(p, "afk_channel_id"))],
        p.voice_states, 1)

\* Guild._from_data that keeps the previous value of a scalar the payload
\* does not carry: a faulty variant of _from_data where the code clears it.
_from_data_keeping(g, p) ==
    LET synced == _sync(FromDataHead(g, p), p)
        kept == [synced EXCEPT
                    !.name = IF p.name = Absent THEN g.name ELSE @,
                    !.icon = IF p.icon = Absent THEN g.icon ELSE @,
                    !.splash = IF p.splash = Absent THEN g.splash ELSE @,
                    !.afk_timeout = IF p.afk_timeout = Absent THEN g.afk_timeout ELSE @,
                    !.mfa_level = IF p.mfa_level = Absent THEN g.mfa_level ELSE @,
                    !.region = IF p.region = Absent THEN g.region ELSE @,
                    !.verification_level =
                        IF p.verification_level = Absent THEN g.verification_level ELSE @]
    IN  IF p.member_count = Nothing
        THEN [g |-> FromDataTail([kept EXCEPT !._large = Nothing], p), raised |-> NoError]
        ELSE IF kept._member_count = Nothing
        THEN [g |-> kept, raised |-> "AttributeError"]
        ELSE [g |-> FromDataTail(
                        [kept EXCEPT !._large = Some(The(kept._member_count) >= LargeThreshold)],
                        p),
              raised |-> NoError]

\* Guild._from_data that leaves the large flag as _sync set it when the
\* payload has no member_count: a faulty variant of _from_data.
_from_data_sync_large(g, p) ==
    LET synced == _sync(FromDataHead(g, p), p)
    IN  IF p.member_count = Nothing
        THEN [g |-> FromDataTail(synced, p), raised |-> NoError]
        ELSE IF synced._member_count = Nothing
        THEN [g |-> synced, raised |-> "AttributeError"]
        ELSE [g |-> FromDataTail(
                        [synced EXCEPT !._large = Some(The(synced._member_count) >= LargeThreshold)],
                        p),
              raised |-> NoError]

\* Guild._from_data(guild).  member_count is stored only when it is truthy;
\* every other slot is assigned from the payload, an absent key giving None
\* (or the default of its get); the roles map is rebuilt from the payload's
\* roles; members, presences and channels are merged into the maps; the large
\* flag is recomputed from the stored member count (AttributeError when a
\* member_count of 0 arrives and none was ever stored, the slots before that
\* line already assigned); then owner, afk channel and voice states.
_from_data(g, p) ==
    LET synced == _sync(FromDataHead(g, p), p)
    IN  IF p.member_count = Nothing
        THEN [g |-> FromDataTail([synced EXCEPT !._large = Nothing], p), raised |-> NoError]
        ELSE IF synced._member_count = Nothing
        THEN [g |-> synced, raised |-> "AttributeError"]
        ELSE [g |-> FromDataTail(
                        [synced EXCEPT !._large = Some(The(synced._member_count) >= LargeThreshold)],
                        p),
              raised |-> NoError]

\* Guild.__init__(data=..., state=...): empty channel, member and voice-state
\* maps, then _from_data.  The slots not yet assigned hold placeholders that
\* _from_data overwrites; _member_count stays unassigned (Nothing) until a
\* payload carries a truthy member_count, and the _default_role slot is
\* unassigned (the empty sequence) until it holds a value.
NewGuild(data) ==
    _from_data(
       [id |-> 0, objs |-> <<>>, _roles |-> <<>>,
        _channels |-> <<>>, _channel_keys |-> <<>>,
        _members |-> <<>>, _voice_states |-> <<>>,
        _member_count |-> Nothing, _large |-> Nothing, _default_role |-> <<>>,
        name |-> None, region |-> None, verification_level |-> None,
        explicit_content_filter |-> None, afk_timeout |-> None, icon |-> None,
        unavailable |-> "False", mfa_level |-> None, emojis |-> <<>>, features |-> <<>>,
        splash |-> None, _system_channel_id |-> Nothing, owner_id |-> Nothing,
        afk_channel |-> Nothing],
        data)

(***************************************************************************)
(* Payloads                                                                *)
(***************************************************************************)
\* A guild payload that carries no key besides the id.
EmptyPayload ==
    [id |-> GuildId, member_count |-> Nothing, large |-> Nothing,
     name |-> Absent, region |-> Absent, verification_level |-> Absent,
     explicit_content_filter |-> Absent, afk_timeout |-> Absent, icon |-> Absent,
     unavailable |-> Absent, mfa_level |-> Absent, splash |-> Absent,
     system_channel_id |-> Absent, owner_id |-> Absent, afk_channel_id |-> Absent,
     emojis |-> <<>>, features |-> <<>>, roles |-> <<>>, members |-> <<>>,
     presences |-> <<>>, channels |-> <<>>, voice_states |-> <<>>]

\* The scalar keys a guild-update may carry or leave out, with the value the
\* snapshot gives each and the value an update gives it.
UpdateKeys ==
    {"name", "region", "icon", "afk_timeout", "verification_level",
     "mfa_level", "splash", "owner_id"}
SnapshotValue ==
    [k \in UpdateKeys |->
        CASE k = "name" -> "guild"
          [] k = "region" -> "us_west"
          [] k = "icon" -> "icon1"
          [] k = "afk_timeout" -> "300"
          [] k = "verification_level" -> "low"
          [] k = "mfa_level" -> "0"
          [] k = "splash" -> "splash1"
          [] k = "owner_id" -> "7"]
UpdateValue ==
    [k \in UpdateKeys |->
        CASE k = "name" -> "renamed"
          [] k = "region" -> "eu_west"
          [] k = "icon" -> "icon2"
          [] k = "afk_timeout" -> "900"
          [] k = "verification_level" -> "high"
          [] k = "mfa_level" -> "1"
          [] k = "splash" -> "splash2"
          [] k = "owner_id" -> "21"]

\* A full guild snapshot (guild-create).
Snapshot(roles, member_count) ==
    [EmptyPayload EXCEPT
        !.member_count = member_count,
        !.name = SnapshotValue["name"], !.region = SnapshotValue["region"],
        !.icon = SnapshotValue["icon"], !.afk_timeout = SnapshotValue["afk_timeout"],
        !.verification_level = SnapshotValue["verification_level"],
        !.mfa_level = SnapshotValue["mfa_level"], !.splash = SnapshotValue["splash"],
        !.owner_id = SnapshotValue["owner_id"],
        !.explicit_content_filter = "0", !.unavailable = "False",
        !.roles = roles, !.members = << [id |-> 11] >>,
        !.channels =
            << [id |-> 21, type |-> "text", position |-> 0, category_id |-> Nothing],
               [id |-> 22, type |-> "voice", position |-> 0, category_id |-> Nothing] >>]

\* A guild-update that carries the scalar keys in `present` and no list.
UpdatePayload(present, member_count) ==
    [k \in DOMAIN EmptyPayload |->
        IF k \in present THEN UpdateValue[k]
        ELSE IF k = "member_count" THEN member_count
        ELSE EmptyPayload[k]]

(***************************************************************************)
(* The events applied to the guild                                         *)
(***************************************************************************)

\* role-create: the role is built from the payload and added.
RoleCreate(id, position) ==
    /\ Len(guild.objs) < MaxRoleObjs
    /\ LET made == Role(guild, [id |-> id, position |-> position])
       IN  /\ guild' = _add_role(made, NewestRole(made))
           /\ last' = [op |-> "role_create", id |-> id, position |-> position,
                       role |-> NewestRole(made), replaced |-> get_role(guild, id),
                       raised |-> NoError]
    /\ UNCHANGED <<session, request, paginator, embed>>

\* role-delete: Guild._remove_role with the payload's role id.
RoleDelete(id) ==
    /\ LET r == _remove_role(guild, id)
       IN  /\ guild' = r.g
           /\ last' = [op |-> "role_delete", id |-> id, role |-> r.ret,
                       raised |-> r.raised]
    /\ UNCHANGED <<session, request, paginator, embed>>

\* voice-state-update: Guild._update_voice_state with the payload and its
\* channel id (None when the user left voice).
VoiceStateUpdate(data, channel_id) ==
    /\ LET r == _update_voice_state(guild, data, channel_id)
       IN  /\ guild' = r.g
           /\ last' = [op |-> "voice_state_update", data |-> data,
                       channel_id |-> channel_id,
                       known |-> data.user_id \in DOMAIN guild._voice_states,
                       ret |-> r.ret, raised |-> NoError]
    /\ UNCHANGED <<session, request, paginator, embed>>

\* guild-update: Guild._from_data on the cached guild.
GuildUpdate(p) ==
    /\ LET r == _from_data(guild, p)
       IN  /\ guild' = r.g
           /\ last' = [op |-> "guild_update", data |-> p, raised |-> r.raised]
    /\ UNCHANGED <<session, request, paginator, embed>>

Constructed == [op |-> "init", raised |-> NoError]

(***************************************************************************)
(* Specifications                                                          *)
(***************************************************************************)
\* A guild built from a snapshot whose roles are contiguous: the default
\* role at position 0 and up to MaxInitRoles other roles at positions 1, 2,
\* ... in any order of ids.
InitRoles ==
    /\ guild \in
        { NewGuild(Snapshot(roles, Some(2))).g :
            roles \in UNION { { <<[id |-> GuildId, position |-> 0]>>
                                  \o [i \in 1..n |-> [id |-> ids[i], position |-> i]] :
                                ids \in { f \in [1..n -> RoleIds] :
                                            \A i, j \in 1..n : f[i] = f[j] => i = j } } :
                              n \in 0..MaxInitRoles } }
    /\ last = Constructed
    /\ session = [state |-> "Disconnected"]
    /\ request = [pc |-> "idle"]
    /\ paginator = [built |-> FALSE]
    /\ embed = [_fields |-> Nothing]

\* Role events with any payload: a role is created at position 0 or 1, and
\* any role id is deleted, the default role's and an unknown one included.
NextRoles ==
    \/ \E id \in RoleIds, position \in 0..1 : RoleCreate(id, position)
    \/ \E id \in {GuildId} \cup RoleIds : RoleDelete(id)

SpecRoles == InitRoles /\ [][NextRoles]_vars

\* Role events as the service sends them: a created role arrives at the
\* bottom position, and the default role is neither created nor deleted.
NextRoleEvents ==
    \/ \E id \in RoleIds : RoleCreate(id, BottomPosition)
    \/ \E id \in RoleIds : RoleDelete(id)

SpecRoleEvents == InitRoles /\ [][NextRoleEvents]_vars

\* A guild with two channels and one member, nobody in voice; the session
\* disconnected, no webhook request made, no paginator built, and an Embed()
\* that never had a field (its _fields slot is unset).
InitVoice ==
    /\ guild = NewGuild(Snapshot(<<[id |-> GuildId, position |-> 0]>>, Some(2))).g
    /\ last = Constructed
    /\ session = [state |-> "Disconnected"]
    /\ request = [pc |-> "idle"]
    /\ paginator = [built |-> FALSE]
    /\ embed = [_fields |-> Nothing]

\* Voice-state payloads of the users, with no channel, a channel of the
\* guild or channel 29, which is in no snapshot.
NextVoice ==
    \E data \in [user_id : UserIds, mute : BOOLEAN, deaf : BOOLEAN],
       channel_id \in {Nothing} \cup {Some(c) : c \in ChannelIds \cup {29}} :
        VoiceStateUpdate(data, channel_id)

SpecVoice == InitVoice /\ [][NextVoice]_vars

\* A guild built from a snapshot with or without a member count.
InitGuildUpdate ==
    /\ guild \in { NewGuild(Snapshot(<<[id |-> GuildId, position |-> 0]>>, mc)).g :
                    mc \in {Nothing, Some(2)} }
    /\ last = Constructed
    /\ session = [state |-> "Disconnected"]
    /\ request = [pc |-> "idle"]
    /\ paginator = [built |-> FALSE]
    /\ embed = [_fields |-> Nothing]

NextGuildUpdate ==
    \E present \in SUBSET UpdateKeys, mc \in {Nothing, Some(0)} :
        GuildUpdate(UpdatePayload(present, mc))

SpecGuildUpdate == InitGuildUpdate /\ [][NextGuildUpdate]_vars

(***************************************************************************)
(* Roles: positions                                                        *)
(***************************************************************************)
PositionOf(g, ref) == g.objs[ref].position

\* C1: after any sequence of role-create and role-delete events on a guild
\* whose roles start contiguous, the positions of the stored roles are exactly
\* 0..N-1 (N the number of roles), the default role at 0, without gap or
\* duplicate.
C1_PositionsContiguous ==
    LET N == Cardinality(DOMAIN guild._roles)
    IN  /\ { PositionOf(guild, r) : r \in Range(guild._roles) } = 0..(N - 1)
        /\ guild.id \in DOMAIN guild._roles
        /\ PositionOf(guild, guild._roles[guild.id]) = 0

\* C7: a role-delete of a stored role removes it from the map, moves every
\* remaining role that was above it down by exactly one and leaves every other
\* role's position unchanged; the roles that stay are the same objects.
C7_RemoveRoleShiftsDown ==
    [][ (last'.op = "role_delete" /\ last'.id \in DOMAIN guild._roles) =>
            LET removed == guild._roles[last'.id]
            IN  /\ last'.raised = NoError
                /\ last'.role = Some(removed)
                /\ DOMAIN guild'._roles = DOMAIN guild._roles \ {last'.id}
                /\ \A k \in DOMAIN guild'._roles :
                    /\ guild'._roles[k] = guild._roles[k]
                    /\ PositionOf(guild', guild'._roles[k]) =
                        IF PositionOf(guild, guild._roles[k]) > PositionOf(guild, removed)
                        THEN PositionOf(guild, guild._roles[k]) - 1
                        ELSE PositionOf(guild, guild._roles[k]) ]_vars

\* C7, the scenario: @everyone@0, Admin(2)@1, Mod(3)@2 minus Admin has left
\* @everyone@0 and Mod@1.
C7_Witness ==
    /\ last.op = "role_delete" /\ last.raised = NoError /\ last.id = 2
    /\ PositionOf(guild, The(last.role)) = 1
    /\ DOMAIN guild._roles = {GuildId, 3}
    /\ PositionOf(guild, guild._roles[GuildId]) = 0
    /\ PositionOf(guild, guild._roles[3]) = 1

\* C8: a role-create stores the new role under its id and moves every role
\* that was stored before and is not the default role up by exactly one; the
\* default role keeps its position, 0.
C8_AddRoleShiftsUp ==
    [][ last'.op = "role_create" =>
            /\ guild'._roles[last'.id] = last'.role
            /\ guild'.objs[last'.role] = [id |-> last'.id, position |-> last'.position]
            /\ DOMAIN guild'._roles = DOMAIN guild._roles \cup {last'.id}
            /\ \A k \in DOMAIN guild._roles \ {last'.id} :
                    guild'._roles[k] = guild._roles[k]
            /\ \A r \in Range(guild._roles) :
                    PositionOf(guild', r) =
                        IF guild.objs[r].id = guild.id
                        THEN PositionOf(guild, r)
                        ELSE PositionOf(guild, r) + 1
            /\ (guild.id \in DOMAIN guild._roles
                    /\ PositionOf(guild, guild._roles[guild.id]) = 0)
                => (guild.id \in DOMAIN guild'._roles
                    /\ PositionOf(guild', guild'._roles[guild.id]) = 0) ]_vars

\* C8: a role was created in a guild that holds the default role at 0 and
\* another role, now at position 2.
C8_Witness ==
    /\ last.op = "role_create"
    /\ guild.id \in DOMAIN guild._roles
    /\ PositionOf(guild, guild._roles[guild.id]) = 0
    /\ \E k \in DOMAIN guild._roles \ {last.id} : PositionOf(guild, guild._roles[k]) = 2

\* C9 as claimed: a role-delete for an id that is not in the roles map raises
\* no error and leaves the roles map and every position unchanged.
C9_UnknownDeleteIsSilent ==
    [][ (last'.op = "role_delete" /\ last'.id \notin DOMAIN guild._roles) =>
            (last'.raised = NoError /\ guild' = guild) ]_vars

\* C9 as amended: a role-delete for an id that is not in the roles map raises
\* KeyError and leaves the roles map and every position unchanged.
C9_UnknownDeleteRaisesKeyError ==
    [][ (last'.op = "role_delete" /\ last'.id \notin DOMAIN guild._roles) =>
            (last'.raised = "KeyError" /\ last'.role = Nothing /\ guild' = guild) ]_vars

\* C9: a role-delete named an id the map did not hold, in a guild with roles.
C9_Witness ==
    /\ last.op = "role_delete" /\ last.role = Nothing
    /\ Cardinality(DOMAIN guild._roles) >= 2

\* C10: a role-create whose id is already in the roles map overwrites the
\* role stored under that id: the map holds the new role object there, exactly
\* one stored role has that id and the number of roles is unchanged.
C10_CollisionOverwrites ==
    [][ (last'.op = "role_create" /\ last'.id \in DOMAIN guild._roles) =>
            /\ DOMAIN guild'._roles = DOMAIN guild._roles
            /\ Cardinality(DOMAIN guild'._roles) = Cardinality(DOMAIN guild._roles)
            /\ guild'._roles[last'.id] = last'.role
            /\ guild'._roles[last'.id] # guild._roles[last'.id]
            /\ guild'.objs[last'.role] = [id |-> last'.id, position |-> last'.position]
            /\ Cardinality({ r \in Range(guild'._roles) : guild'.objs[r].id = last'.id }) = 1
      ]_vars

\* C10: a role-create replaced a stored role.
C10_Witness ==
    /\ last.op = "role_create" /\ last.replaced # Nothing
    /\ guild._roles[last.id] = last.role

(***************************************************************************)
(* Guild update: scalar fields                                             *)
(***************************************************************************)

\* C2 as claimed: a guild-update that carries only a subset of the scalar
\* fields leaves every scalar field absent from the payload at its previous
\* value.
C2_AbsentFieldsKept ==
    [][ last'.op = "guild_update" =>
            \A k \in UpdateKeys : last'.data[k] = Absent => guild'[k] = guild[k] ]_vars

\* C2 as amended: a guild-update assigns every scalar field from the payload,
\* so a field absent from the payload is reset to None; only the stored
\* member count is kept when the payload has no member_count.  owner_id, which
\* is assigned after the large flag, keeps its value when the call raises there.
C2_AbsentFieldsCleared ==
    [][ last'.op = "guild_update" =>
            LET \* The value stored for a scalar key the payload carries.
                StoredValue(k, v) ==
                    CASE k = "region" -> try_enum(enums.VoiceRegion, v)
                      [] k = "verification_level" -> try_enum(enums.VerificationLevel, v)
                      [] k = "owner_id" -> Some(SnowflakeOf[v])
                      [] OTHER -> v
            IN  /\ \A k \in UpdateKeys \ {"owner_id"} :
                        guild'[k] = IF last'.data[k] = Absent THEN None
                                    ELSE StoredValue(k, last'.data[k])
                /\ guild'.owner_id =
                        IF last'.raised # NoError THEN guild.owner_id
                        ELSE IF last'.data.owner_id = Absent THEN Nothing
                        ELSE StoredValue("owner_id", last'.data.owner_id)
                /\ last'.data.member_count = Nothing
                        => guild'._member_count = guild._member_count ]_vars

\* C2: an update that carried an icon and no name, no region and no
\* member_count was applied to a guild with a stored member count.
C2_Witness ==
    /\ last.op = "guild_update" /\ last.raised = NoError
    /\ last.data.name = Absent /\ last.data.region = Absent
    /\ last.data.icon # Absent /\ last.data.member_count = Nothing
    /\ guild.name = None /\ guild.region = None /\ guild.icon = UpdateValue["icon"]
    /\ guild._member_count = Some(2)

(***************************************************************************)
(* Voice states: the before snapshot                                       *)
(***************************************************************************)

\* C3 as claimed: every voice-state-update returns a `before` equal to the
\* user's voice state before the update, and an empty state (no channel, no
\* flag of the payload) when the user had none.
C3_BeforeIsPriorOrEmpty ==
    [][ last'.op = "voice_state_update" =>
            last'.ret.before =
                IF last'.data.user_id \in DOMAIN guild._voice_states
                THEN guild._voice_states[last'.data.user_id]
                ELSE [channel |-> Nothing, mute |-> FALSE, deaf |-> FALSE] ]_vars

\* C3 as amended: every voice-state-update returns a `before` equal to the
\* user's voice state before the update; when the user had none, `before` has
\* no channel and carries the flags of the new payload.
C3_BeforeIsPriorOrPayloadFlags ==
    [][ last'.op = "voice_state_update" =>
            last'.ret.before =
                IF last'.data.user_id \in DOMAIN guild._voice_states
                THEN guild._voice_states[last'.data.user_id]
                ELSE [channel |-> Nothing, mute |-> last'.data.mute,
                      deaf |-> last'.data.deaf] ]_vars

\* C3: a user without a voice state joined a channel muted; `before` has no
\* channel and is muted too.
C3_Witness ==
    /\ last.op = "voice_state_update" /\ ~last.known
    /\ last.data.mute /\ last.ret.after.channel # Nothing
    /\ last.ret.before.channel = Nothing /\ last.ret.before.mute
    /\ guild._voice_states[last.data.user_id] = last.ret.after

(***************************************************************************)
(* Connection Session (specification section 4.4)                          *)
(***************************************************************************)
\* Bounds: inbound events per connection, consecutive failed attempts,
\* identify handshakes over one run.
MaxSeq == 2
MaxAttempts == 7
MaxIdentifies == 2

\* Backoff: the base delay and the cap, in seconds.
BaseDelay == 1
MaxDelay == 32

RECURSIVE Pow2(_)
Pow2(n) == IF n = 0 THEN 1 ELSE 2 * Pow2(n - 1)

\* A backoff with the cap never applied: a faulty variant of BackoffDelay.
BackoffDelayUncapped(attempt) == BaseDelay * Pow2(attempt - 1)

\* The delay before the retry that follows the attempt-th consecutive
\* failure: the base delay doubled per earlier failure, capped.
BackoffDelay(attempt) == Min(BaseDelay * Pow2(attempt - 1), MaxDelay)

\* Where a session leaves a connection it lost keeping every guild it cached,
\* reconnecting from scratch: a faulty variant of Reconnecting.
ReconnectingFromScratch(s) ==
    [s EXCEPT !.state = "Connecting", !.acked = TRUE,
              !.session_id = Nothing, !.seq = Nothing]

\* Where a session goes when its connection is lost or must be replaced:
\* Resuming with its session id and sequence when it holds both, else
\* Connecting for a full identify.
Reconnecting(s) ==
    IF s.session_id # Nothing /\ s.seq # Nothing
    THEN [s EXCEPT !.state = "Resuming", !.acked = TRUE]
    ELSE [s EXCEPT !.state = "Connecting", !.acked = TRUE,
                   !.session_id = Nothing, !.seq = Nothing]

\* A missed acknowledgment that ends the session with an error: a faulty
\* variant of MissedAck.
MissedAckFatal(s) == [s EXCEPT !.state = "Disconnected", !.error = "HeartbeatTimeout"]

\* A heartbeat came due with the previous one unacknowledged.
MissedAck(s) == [s EXCEPT !.state = "Degraded"]

SessionStep(op, s) ==
    /\ session' = s
    /\ last' = [op |-> op, raised |-> NoError]
    /\ UNCHANGED <<guild, request, paginator, embed>>

\* Disconnected -> Connecting
Connect ==
    /\ session.state = "Disconnected" /\ session.error = NoError
    /\ SessionStep("connect", [session EXCEPT !.state = "Connecting"])

\* Opening the transport failed (Connecting, or the reopen of Resuming):
\* retry after the backoff delay.
ConnectFailed ==
    /\ session.state \in {"Connecting", "Resuming"}
    /\ session.attempts < MaxAttempts
    /\ SessionStep("connect_failed",
            [session EXCEPT !.attempts = @ + 1,
                            !.delay = BackoffDelay(session.attempts + 1)])

\* Connecting -> Identifying
ConnectSucceeded ==
    /\ session.state = "Connecting"
    /\ session.identifies < MaxIdentifies
    /\ SessionStep("connect_succeeded",
            [session EXCEPT !.state = "Identifying", !.identifies = @ + 1])

\* Identifying -> Ready: a fresh session id, the sequence counter at zero,
\* the guild cache rebuilt from the guild-create events that follow.
IdentifySucceeded ==
    /\ session.state = "Identifying"
    /\ SessionStep("identify_succeeded",
            [session EXCEPT !.state = "Ready", !.session_id = Some(session.identifies),
                            !.seq = Some(0), !.attempts = 0, !.delay = 0,
                            !.acked = TRUE, !.guilds = {}])

\* Identifying: the credentials are refused.  Fatal, surfaced to the caller.
IdentifyRefused ==
    /\ session.state = "Identifying"
    /\ SessionStep("identify_refused",
            [session EXCEPT !.state = "Disconnected", !.error = "AuthError",
                            !.session_id = Nothing, !.seq = Nothing])

\* Ready: an inbound event was decoded; a guild-create caches its guild.
InboundEvent(created) ==
    /\ session.state = "Ready"
    /\ The(session.seq) < MaxSeq
    /\ SessionStep("event",
            [session EXCEPT !.seq = Some(The(@) + 1), !.guilds = @ \cup created])

\* A skipped event that advances the sequence counter all the same: a faulty
\* variant of Skipped.
SkippedCounted(s) == [s EXCEPT !.seq = Some(The(@) + 1)]

\* The session after an inbound event that failed to decode: the event is
\* skipped, the sequence counter is not advanced.
Skipped(s) == s

\* Ready: an inbound event of a known opcode is malformed (DecodeError); it
\* is skipped and the session goes on.
MalformedEvent ==
    /\ session.state = "Ready"
    /\ SessionStep("event_skipped", Skipped(session))

\* Ready: a heartbeat is due.  It is sent when the previous one was
\* acknowledged; otherwise the session is flagged Degraded.
HeartbeatDue ==
    /\ session.state = "Ready"
    /\ SessionStep("heartbeat_due",
            IF session.acked THEN [session EXCEPT !.acked = FALSE]
            ELSE MissedAck(session))

\* Ready: the acknowledgment of the heartbeat sent arrives.
HeartbeatAck ==
    /\ session.state = "Ready" /\ ~session.acked
    /\ SessionStep("heartbeat_ack", [session EXCEPT !.acked = TRUE])

\* Degraded: the forced reconnect.
ForceReconnect ==
    /\ session.state = "Degraded"
    /\ SessionStep("force_reconnect", Reconnecting(session))

\* The transport drops.
TransportDrop ==
    /\ session.state \in {"Identifying", "Ready"}
    /\ SessionStep("transport_drop", Reconnecting(session))

\* The service asks the client to reconnect.
ReconnectRequested ==
    /\ session.state = "Ready"
    /\ SessionStep("reconnect_requested", Reconnecting(session))

\* Resuming -> Ready: the resume handshake with the session id and the last
\* sequence was accepted.
ResumeSucceeded ==
    /\ session.state = "Resuming"
    /\ SessionStep("resume_succeeded",
            [session EXCEPT !.state = "Ready", !.attempts = 0, !.delay = 0])

\* Resuming -> Identifying: the resume was rejected (invalid session); the
\* cached guilds are discarded for the full re-sync.
ResumeRejected ==
    /\ session.state = "Resuming"
    /\ session.identifies < MaxIdentifies
    /\ SessionStep("resume_rejected",
            [session EXCEPT !.state = "Identifying", !.identifies = @ + 1,
                            !.session_id = Nothing, !.seq = Nothing,
                            !.guilds = {}])

InitSession ==
    /\ session = [state |-> "Disconnected", session_id |-> Nothing, seq |-> Nothing,
                  attempts |-> 0, delay |-> 0, acked |-> TRUE, guilds |-> {},
                  identifies |-> 0, error |-> NoError]
    /\ guild = NewGuild(Snapshot(<<[id |-> GuildId, position |-> 0]>>, Some(2))).g
    /\ last = Constructed
    /\ request = [pc |-> "idle"]
    /\ paginator = [built |-> FALSE]
    /\ embed = [_fields |-> Nothing]

NextSession ==
    \/ Connect
    \/ ConnectFailed
    \/ ConnectSucceeded
    \/ IdentifySucceeded
    \/ IdentifyRefused
    \/ \E created \in {{}} \cup {{g} : g \in {GuildId, 2}} : InboundEvent(created)
    \/ MalformedEvent
    \/ HeartbeatDue
    \/ HeartbeatAck
    \/ ForceReconnect
    \/ TransportDrop
    \/ ReconnectRequested
    \/ ResumeSucceeded
    \/ ResumeRejected

\* The forced reconnect of a Degraded session is a step of the session's own
\* task: it is taken once it is due.
SpecSession == InitSession /\ [][NextSession]_vars /\ WF_vars(ForceReconnect)

(***************************************************************************)
(* Connection Session: resume, heartbeat, backoff                          *)
(***************************************************************************)
\* C4: a transport drop or a reconnect request in a session that holds a
\* session id and a sequence number leads to Resuming with both kept, no
\* identify sent and the cached guilds kept, and so does every step from
\* Resuming to Ready; a rejected resume leads to Identifying with every cached
\* guild discarded.
C4_ResumeKeepsCacheRejectDiscards ==
    [][ /\ ( /\ last'.op \in {"transport_drop", "reconnect_requested"}
             /\ session.session_id # Nothing /\ session.seq # Nothing )
            => ( /\ session'.state = "Resuming"
                 /\ <<session'.session_id, session'.seq, session'.guilds, session'.identifies>>
                    = <<session.session_id, session.seq, session.guilds, session.identifies>> )
        /\ ( session.state = "Resuming" /\ session'.state \in {"Resuming", "Ready"} )
            => <<session'.session_id, session'.seq, session'.guilds, session'.identifies>>
                    = <<session.session_id, session.seq, session.guilds, session.identifies>>
        /\ last'.op = "resume_rejected"
            => ( /\ session'.state = "Identifying"
                 /\ session'.identifies = session.identifies + 1
                 /\ session'.guilds = {} ) ]_vars

\* C4: a session that cached a guild and received an event is Ready again
\* after a resume, the guild still cached.
C4_Witness ==
    /\ last.op = "resume_succeeded" /\ session.state = "Ready"
    /\ session.guilds # {} /\ The(session.seq) >= 1
    /\ session.identifies = 1

\* C5: in Ready, a heartbeat due while the previous one is unacknowledged
\* flags the session Degraded without an error; a Degraded session goes
\* nowhere but to Resuming or Connecting, and it does get there.
C5_MissedAckReconnects ==
    /\ [][ ( /\ last'.op = "heartbeat_due"
             /\ session.state = "Ready" /\ ~session.acked )
            => ( session'.state = "Degraded" /\ session'.error = NoError ) ]_vars
    /\ [][ session.state = "Degraded"
            => ( /\ session'.state \in {"Degraded", "Resuming", "Connecting"}
                 /\ session'.error = NoError ) ]_vars
    /\ ( (session.state = "Degraded")
            ~> (session.state \in {"Resuming", "Connecting"}) )

\* C5: a Degraded session was forced to reconnect and is Resuming.
C5_Witness ==
    /\ last.op = "force_reconnect" /\ session.state = "Resuming"
    /\ session.error = NoError

\* C6: with base 1 and cap 32 the delays of the consecutive failed attempts
\* 1..5 are 1, 2, 4, 8, 16 and every later delay is at most 32; each failure
\* after the first doubles the delay up to the cap.
C6_BackoffDoublesToCap ==
    /\ [] ( session.attempts >= 1 =>
                /\ session.attempts <= 5 => session.delay = <<1, 2, 4, 8, 16>>[session.attempts]
                /\ session.attempts > 5 => session.delay <= 32
                /\ session.delay <= MaxDelay )
    /\ [][ last'.op = "connect_failed" =>
                session'.delay = IF session.attempts = 0 THEN BaseDelay
                                 ELSE Min(2 * session.delay, MaxDelay) ]_vars

\* C6: the seventh consecutive failure waits the cap, not 64.
C6_Witness ==
    /\ last.op = "connect_failed"
    /\ session.attempts = 7 /\ session.delay = 32

(***************************************************************************)
(* Voice states: leaving voice                                             *)
(***************************************************************************)
\* C11: after a voice-state-update whose channel is None the voice-state map
\* holds no entry for the user, whether or not it held one before.
C11_LeaveEvicts ==
    (last.op = "voice_state_update" /\ last.channel_id = Nothing)
        => last.data.user_id \notin DOMAIN guild._voice_states

(***************************************************************************)
(* Members                                                                 *)
(***************************************************************************)
\* Bound: the member count a guild reaches.
MaxMemberCount == 4

\* member-add that leaves the member count alone: a faulty variant of
\* member_add.
member_add_no_count(g, mdata) == _add_member(g, Member(mdata))

\* member-add (specification section 4.3): the member is inserted with
\* Guild._add_member and the guild's member count is incremented.
member_add(g, mdata) ==
    [_add_member(g, Member(mdata)) EXCEPT
        !._member_count = Some(The(g._member_count) + 1)]

\* member-remove that decrements the member count for any id: a faulty
\* variant of member_remove.
member_remove_always_counts(g, user_id) ==
    [_remove_member(g, user_id) EXCEPT
        !._member_count = IF @ = Nothing THEN @ ELSE Some(The(@) - 1)]

\* member-remove (specification section 4.3): the member is removed with
\* Guild._remove_member and the member count decremented; an id the guild
\* does not hold changes nothing.
member_remove(g, user_id) ==
    IF get_member(g, user_id) = Nothing
    THEN _remove_member(g, user_id)
    ELSE [_remove_member(g, user_id) EXCEPT
            !._member_count = Some(The(g._member_count) - 1)]

\* The member events of a guild that has a member count to keep.
MemberAdd(id) ==
    /\ guild._member_count # Nothing
    /\ The(guild._member_count) < MaxMemberCount
    /\ guild' = member_add(guild, [id |-> id])
    /\ last' = [op |-> "member_add", id |-> id,
                known |-> get_member(guild, id) # Nothing, raised |-> NoError]
    /\ UNCHANGED <<session, request, paginator, embed>>

MemberRemove(id) ==
    /\ get_member(guild, id) # Nothing => guild._member_count # Nothing
    /\ guild' = member_remove(guild, id)
    /\ last' = [op |-> "member_remove", id |-> id,
                known |-> get_member(guild, id) # Nothing, raised |-> NoError]
    /\ UNCHANGED <<session, request, paginator, embed>>

\* A guild with one member and a member count of one, of two or none;
\* members join and leave, and a leave may name a user the guild does not
\* hold.
InitMembers ==
    /\ guild \in { NewGuild(Snapshot(<<[id |-> GuildId, position |-> 0]>>, mc)).g :
                    mc \in {Nothing, Some(1), Some(2)} }
    /\ last = Constructed
    /\ session = [state |-> "Disconnected"]
    /\ request = [pc |-> "idle"]
    /\ paginator = [built |-> FALSE]
    /\ embed = [_fields |-> Nothing]

NextMembers ==
    \/ \E id \in UserIds \cup {13, 14} : MemberAdd(id)
    \/ \E id \in UserIds \cup {13, 14} : MemberRemove(id)

SpecMembers == InitMembers /\ [][NextMembers]_vars

\* C12: a member-remove for an id that is not in the members map raises
\* nothing and leaves the members map and the member count unchanged.
C12_UnknownRemoveChangesNothing ==
    [][ (last'.op = "member_remove" /\ last'.id \notin DOMAIN guild._members)
            => /\ last'.raised = NoError
               /\ guild'._members = guild._members
               /\ guild'._member_count = guild._member_count ]_vars

\* C12: a member-remove named a user the guild did not hold, in a guild that
\* holds members.
C12_Witness ==
    /\ last.op = "member_remove" /\ ~last.known
    /\ last.id \notin DOMAIN guild._members
    /\ DOMAIN guild._members # {}
    /\ guild._member_count = Some(2)

\* C13: a member-add stores the member under its id and increases the member
\* count by exactly one.
C13_AddInsertsAndCounts ==
    [][ last'.op = "member_add"
            => /\ last'.id \in DOMAIN guild'._members
               /\ \A m \in DOMAIN guild._members \ {last'.id} :
                      /\ m \in DOMAIN guild'._members
                      /\ guild'._members[m] = guild._members[m]
               /\ DOMAIN guild'._members = DOMAIN guild._members \cup {last'.id}
               /\ The(guild'._member_count) = The(guild._member_count) + 1 ]_vars

\* C13: a user the guild did not hold joined; the guild holds two members
\* and counts three.
C13_Witness ==
    /\ last.op = "member_add" /\ ~last.known
    /\ last.id \in DOMAIN guild._members
    /\ Cardinality(DOMAIN guild._members) = 2
    /\ guild._member_count = Some(3)

(***************************************************************************)
(* The large flag                                                          *)
(***************************************************************************)
\* guild-sync: Guild._sync with presence/chunk data for the cached guild.
GuildSync(data) ==
    /\ guild' = _sync(guild, data)
    /\ last' = [op |-> "guild_sync", data |-> data, raised |-> NoError]
    /\ UNCHANGED <<session, request, paginator, embed>>

\* Snapshots with or without a member count (a small one, one at the
\* threshold, one above it) and with or without a `large` field.
InitLarge ==
    /\ \E snap \in
            { [Snapshot(<<[id |-> GuildId, position |-> 0]>>, mc) EXCEPT !.large = l] :
                mc \in {Nothing, Some(2), Some(LargeThreshold), Some(LargeThreshold + 1)},
                l \in {Nothing, Some(TRUE), Some(FALSE)} } :
        /\ guild = NewGuild(snap).g
        /\ last = [op |-> "guild_create", data |-> snap, raised |-> NewGuild(snap).raised]
    /\ session = [state |-> "Disconnected"]
    /\ request = [pc |-> "idle"]
    /\ paginator = [built |-> FALSE]
    /\ embed = [_fields |-> Nothing]

\* Sync payloads: a `large` field or none, the presence of a member, of a
\* user who is no member, or none.  Guild updates with or without a name,
\* and with no member count, a member count of zero, a small one or one at
\* the threshold.
NextLarge ==
    \/ \E l \in {Nothing, Some(TRUE), Some(FALSE)},
          pr \in { <<>> } \cup
                 { <<[user_id |-> u, status |-> "online", game |-> None]>> : u \in UserIds } :
          GuildSync([EmptyPayload EXCEPT !.large = l, !.presences = pr])
    \/ \E present \in {{}, {"name"}},
          mc \in {Nothing, Some(0), Some(2), Some(LargeThreshold)} :
          GuildUpdate(UpdatePayload(present, mc))

SpecLarge == InitLarge /\ [][NextLarge]_vars

C15_SequenceCountsDecodedEvents ==
    [][ /\ ( session.state = "Identifying" /\ session'.state = "Ready" )
            => session'.seq = Some(0)
        /\ ( /\ session.session_id # Nothing
             /\ session'.session_id = session.session_id
             /\ session.seq # Nothing )
            => ( /\ session'.seq # Nothing
                 /\ The(session'.seq) >= The(session.seq)
                 /\ ( session'.seq # session.seq => last'.op = "event" ) )
        /\ last'.op = "event" => session'.seq = Some(The(session.seq) + 1)
        /\ last'.op = "event_skipped" => session'.seq = session.seq ]_vars

\* C15: after one decoded event a malformed event was skipped; the counter
\* is still one.
C15_Witness ==
    /\ last.op = "event_skipped"
    /\ session.state = "Ready"
    /\ session.seq = Some(1)

(***************************************************************************)
(* Webhook adapters (src/discord api/discord/webhook.py)                   *)
(*                                                                         *)
(* One call of request(verb, url, payload, multipart) is a record: the     *)
(* locals of the call (headers, data, tries), everything it sent, a clock  *)
(* in milliseconds that its sleeps advance, and how it ended.  A step is   *)
(* one pass of the `for tries in range(5)` loop: the HTTP request is sent, *)
(* the server's response is the input.  Every response carries a           *)
(* Content-Type header, and the rate-limit headers when it says that none  *)
(* remains.                                                                *)
(***************************************************************************)
\* for tries in range(5)
Tries == 5

\* The body every response carries, and json.loads of it.
Text == "reply"
loads == [t \in {Text} |-> "parsed reply"]

\* The responses of the server: the status, whether the body is JSON,
\* whether X-Ratelimit-Remaining is '0' (`exhausted`) with the seconds until
\* the reset that utils._parse_ratelimit_header computes (here in
\* milliseconds), and the retry_after of a 429 body in milliseconds.  A 429
\* carries a JSON body with retry_after.
Response(status, json, exhausted, retry_after) ==
    [status |-> status, json |-> json, exhausted |-> exhausted,
     reset_after |-> IF exhausted THEN 3000 ELSE 0, retry_after |-> retry_after]

\* The locals of a call before its loop.
Call(adapter, sleep, verb, headers, data, files) ==
    [pc |-> "loop", adapter |-> adapter, sleep |-> sleep, verb |-> verb,
     headers |-> headers, data |-> data, files |-> files, tries |-> 0,
     sent |-> <<>>, clock |-> 0, slept |-> 0, not_before |-> Nothing,
     status |-> 0, outcome |-> "pending", result |-> None, error |-> NoError]

\* session.request(verb, url, headers=headers, data=data[, files=multipart]):
\* what goes out is recorded; a retry_after deadline is consumed.
Send(r) ==
    [r EXCEPT !.sent = Append(@, [verb |-> r.verb, headers |-> r.headers,
                                  data |-> r.data, files |-> r.files]),
              !.not_before = Nothing]

\* data = r.text; if Content-Type is application/json: data = json.loads(data)
Received(r, resp) ==
    [r EXCEPT !.data = IF resp.json THEN loads[Text] ELSE Text,
              !.status = resp.status]

\* asyncio.sleep / time.sleep for ms milliseconds.
Sleep(r, ms) == [r EXCEPT !.clock = @ + ms, !.slept = @ + ms]

\* A 429 sleep that takes the milliseconds of retry_after for a thousandth of
\* what they are: a faulty variant of SleepRetryAfter.
SleepRetryAfterShort(r, resp) ==
    Sleep([r EXCEPT !.not_before = Some(r.clock + resp.retry_after)],
          resp.retry_after \div 1000)

\* The sleep of a 429: retry_after = data['retry_after'] / 1000.0 seconds.
\* The response asks for no new attempt before `not_before`.
SleepRetryAfter(r, resp) ==
    Sleep([r EXCEPT !.not_before = Some(r.clock + resp.retry_after)],
          resp.retry_after)

Return(r, data) == [r EXCEPT !.pc = "done", !.outcome = "returned", !.result = data]
Raise(r, exc) == [r EXCEPT !.pc = "done", !.outcome = "raised", !.error = exc]

\* `continue` in a loop of one pass more: a faulty variant of Continue.
ContinueSixPasses(r) ==
    IF r.tries < Tries THEN [r EXCEPT !.tries = @ + 1] ELSE Return(r, None)

\* `continue`: the next pass of the loop; after the last pass the loop ends
\* and the function returns without a return statement (None).
Continue(r) ==
    IF r.tries + 1 < Tries THEN [r EXCEPT !.tries = @ + 1] ELSE Return(r, None)

\* Every failure raised as the plain HTTPException: a faulty variant of
\* RaiseForStatus.
RaiseHTTPException(r) == Raise(r, "HTTPException")

\* The raise statements that end a pass: 403, 404, anything else.
RaiseForStatus(r) ==
    IF r.status = 403 THEN Raise(r, "Forbidden")
    ELSE IF r.status = 404 THEN Raise(r, "NotFound")
    ELSE Raise(r, "HTTPException")

\* One pass of the loop of AsyncWebhookAdapter.request (lines 153-183).
AsyncAttempt(r, resp) ==
    LET got == Received(Send(r), resp)
        waited == IF resp.exhausted /\ resp.status # 429
                  THEN Sleep(got, resp.reset_after)
                  ELSE got
    IN  IF 300 > resp.status /\ resp.status >= 200 THEN Return(waited, waited.data)
        ELSE IF resp.status = 429
        THEN IF resp.json THEN Continue(SleepRetryAfter(waited, resp))
             ELSE Raise(waited, "TypeError")
        ELSE IF resp.status \in {500, 502}
        THEN Continue(Sleep(waited, (1 + r.tries * 2) * 1000))
        ELSE RaiseForStatus(waited)

\* One pass of the loop of RequestsWebhookAdapter.request (lines 227-265).
RequestsAttempt(r, resp) ==
    LET got == Received(Send(r), resp)
        waited == IF resp.exhausted /\ resp.status # 429 /\ r.sleep
                  THEN Sleep(got, resp.reset_after)
                  ELSE got
    IN  IF 300 > resp.status /\ resp.status >= 200 THEN Return(waited, waited.data)
        ELSE IF resp.status = 429
        THEN IF r.sleep
             THEN IF resp.json THEN Continue(SleepRetryAfter(waited, resp))
                  ELSE Raise(waited, "TypeError")
             ELSE Raise(waited, "HTTPException")
        ELSE IF r.sleep /\ resp.status \in {500, 502}
        THEN Continue(Sleep(waited, (1 + r.tries * 2) * 1000))
        ELSE RaiseForStatus(waited)

\* A caller invokes request() on an adapter: the adapter's request up to
\* its loop.  A truthy payload is sent as JSON with a Content-Type header;
\* AsyncWebhookAdapter sends a multipart as form data with the file,
\* RequestsWebhookAdapter as the payload_json form field, the file in files=.
Request(adapter, sleep, call) ==
    /\ request.pc \in {"idle", "done"}
    /\ request' =
        Call(adapter, sleep, call.verb,
             IF call.payload # None THEN {"Content-Type"} ELSE {},
             IF call.multipart
             THEN (IF adapter = "async" THEN "FormData(file, payload_json)"
                   ELSE "{payload_json}")
             ELSE IF call.payload # None THEN "json(payload)"
             ELSE None,
             IF call.multipart /\ adapter # "async" THEN "{file}" ELSE None)
    /\ last' = [op |-> "request", call |-> call, raised |-> NoError]
    /\ UNCHANGED <<guild, session, paginator, embed>>

\* The call in progress sends its next attempt and handles the response.
Attempt(resp) ==
    /\ request.pc = "loop"
    /\ request' = IF request.adapter = "async" THEN AsyncAttempt(request, resp)
                  ELSE RequestsAttempt(request, resp)
    /\ last' = [op |-> "attempt", resp |-> resp, raised |-> request'.error]
    /\ UNCHANGED <<guild, session, paginator, embed>>

\* The calls the adapter's callers make: delete_webhook, edit_webhook with
\* and without fields, execute_webhook with a payload or with a file.
NextWebhook ==
    \/ \E a \in { <<"async", TRUE>>, <<"requests", TRUE>>, <<"requests", FALSE>> },
          call \in { [verb |-> "DELETE", payload |-> None, multipart |-> FALSE],
                     [verb |-> "PATCH", payload |-> "payload", multipart |-> FALSE],
                     [verb |-> "PATCH", payload |-> None, multipart |-> FALSE],
                     [verb |-> "POST", payload |-> "payload", multipart |-> FALSE],
                     [verb |-> "POST", payload |-> None, multipart |-> TRUE] } :
          Request(a[1], a[2], call)
    \/ \E resp \in
            { Response(429, TRUE, FALSE, ra) : ra \in {500, 2000} }
            \cup { Response(st, FALSE, FALSE, 0) : st \in {500, 502, 204} }
            \cup { Response(200, json, exhausted, 0) :
                    json \in BOOLEAN, exhausted \in BOOLEAN }
            \cup { Response(st, TRUE, exhausted, 0) :
                    st \in {400, 403, 404, 503}, exhausted \in BOOLEAN } :
          Attempt(resp)

SpecWebhook == InitVoice /\ [][NextWebhook]_vars

\* C16: every call of request() ends by returning the parsed body of a 2xx
\* response or by raising Forbidden, NotFound or HTTPException; it never
\* returns without a response body.
C16_BodyOrTypedFailure ==
    request.pc = "done"
        => \/ /\ request.outcome = "returned"
              /\ 300 > request.status /\ request.status >= 200
              /\ request.result \in {Text, loads[Text]}
           \/ /\ request.outcome = "raised"
              /\ request.error \in {"Forbidden", "NotFound", "HTTPException"}

\* C17: an attempt that follows a 429 is sent no sooner than retry_after
\* after that response (async adapter, requests adapter with sleep=True).
C17_NoAttemptBeforeRetryAfter ==
    [][ ( /\ request.pc = "loop" /\ request.sleep
          /\ Len(request'.sent) = Len(request.sent) + 1
          /\ request.not_before # Nothing )
            => request.clock >= The(request.not_before) ]_vars

\* C17: the async adapter was told to retry after 2000 ms, sent its second
\* attempt at 2000 ms and got the body.
C17_Witness ==
    /\ request.pc = "done" /\ request.adapter = "async"
    /\ Len(request.sent) = 2
    /\ request.slept = 2000
    /\ request.outcome = "returned"

C19_NoSleepRaises ==
    [][ ( /\ request.pc = "loop" /\ ~request.sleep /\ last'.op = "attempt" )
            => /\ request'.slept = 0
               /\ request'.pc = "done" /\ Len(request'.sent) = 1
               /\ ( \/ last'.resp.status = 429
                    \/ last'.resp.exhausted
                    \/ last'.resp.status >= 500 )
                    => ( /\ request'.outcome = "raised"
                         /\ request'.error \in
                                {"HTTPException", "Forbidden", "NotFound"} ) ]_vars

(***************************************************************************)
(* Paginator (src/discord.py-rewrite/.../ext/commands/formatter.py)        *)
(*                                                                         *)
(* A string is the sequence of its codepoints, so len is Len.              *)
(***************************************************************************)
\* Bounds: the longest line added, the pages a paginator collects.
MaxLineLen == 3
MaxPages == 2

\* The string of n copies of the codepoint c.
Repeat(c, n) == [i \in 1..n |-> c]

\* '\n'.join(parts)
RECURSIVE join(_)
join(parts) ==
    IF parts = <<>> THEN <<>>
    ELSE IF Len(parts) = 1 THEN parts[1]
    ELSE parts[1] \o <<"\n">> \o join(Tail(parts))

\* Paginator.__init__(prefix, suffix, max_size)
Paginator(prefix, suffix, max_size) ==
    [built |-> TRUE, prefix |-> prefix, suffix |-> suffix,
     max_size |-> max_size - Len(suffix),
     _current_page |-> <<prefix>>,
     _count |-> Len(prefix) + 1,
     _pages |-> <<>>]

\* Paginator.close_page
close_page(p) ==
    [p EXCEPT !._pages = Append(@, join(Append(p._current_page, p.suffix))),
              !._current_page = <<p.prefix>>,
              !._count = Len(p.prefix) + 1]

\* Paginator.add_line that also refuses a line that fills a page exactly: a
\* faulty variant of add_line.
add_line_strict(p, line, empty) ==
    IF Len(line) >= p.max_size - Len(p.prefix) - 2
    THEN [p |-> p, raised |-> "RuntimeError"]
    ELSE LET room == IF p._count + Len(line) + 1 > p.max_size
                     THEN close_page(p) ELSE p
             added == [room EXCEPT !._count = @ + Len(line) + 1,
                                   !._current_page = Append(@, line)]
         IN  [p |-> IF empty
                    THEN [added EXCEPT !._current_page = Append(@, <<>>),
                                       !._count = @ + 1]
                    ELSE added,
              raised |-> NoError]

\* Paginator.add_line(line, empty=...)
add_line(p, line, empty) ==
    IF Len(line) > p.max_size - Len(p.prefix) - 2
    THEN [p |-> p, raised |-> "RuntimeError"]
    ELSE LET room == IF p._count + Len(line) + 1 > p.max_size
                     THEN close_page(p) ELSE p
             added == [room EXCEPT !._count = @ + Len(line) + 1,
                                   !._current_page = Append(@, line)]
         IN  [p |-> IF empty
                    THEN [added EXCEPT !._current_page = Append(@, <<>>),
                                       !._count = @ + 1]
                    ELSE added,
              raised |-> NoError]

\* Paginator.pages: the current page is closed when it holds more than the
\* prefix; the finished pages are returned.
pages(p) ==
    LET closed == IF Len(p._current_page) > 1 THEN close_page(p) ELSE p
    IN  [p |-> closed, ret |-> closed._pages]

NewPaginator(p) ==
    /\ paginator' = p
    /\ last' = [op |-> "paginator", raised |-> NoError]
    /\ UNCHANGED <<guild, session, request, embed>>

AddLine(line, empty) ==
    /\ paginator.built
    /\ Len(paginator._pages) < MaxPages
    /\ LET r == add_line(paginator, line, empty)
       IN  /\ paginator' = r.p
           /\ last' = [op |-> "add_line", line |-> line, empty |-> empty,
                       raised |-> r.raised]
    /\ UNCHANGED <<guild, session, request, embed>>

ClosePage ==
    /\ paginator.built
    /\ Len(paginator._pages) < MaxPages
    /\ paginator' = close_page(paginator)
    /\ last' = [op |-> "close_page", raised |-> NoError]
    /\ UNCHANGED <<guild, session, request, embed>>

Pages ==
    /\ paginator.built
    /\ Len(paginator._pages) < MaxPages
    /\ LET r == pages(paginator)
       IN  /\ paginator' = r.p
           /\ last' = [op |-> "pages", ret |-> r.ret, raised |-> NoError]
    /\ UNCHANGED <<guild, session, request, embed>>

\* The paginators built: a prefix and a suffix of three codepoints, as the
\* default ones, with room for lines of two codepoints, and a one-codepoint
\* prefix and suffix with room for lines of four.
NextPaginator ==
    \/ \E p \in { Paginator(Repeat("~", 3), Repeat("~", 3), 10),
                  Paginator(Repeat("~", 1), Repeat("~", 1), 8) } : NewPaginator(p)
    \/ \E line \in { Repeat("a", n) : n \in 0..MaxLineLen }, empty \in BOOLEAN :
          AddLine(line, empty)
    \/ ClosePage
    \/ Pages

SpecPaginator == InitVoice /\ [][NextPaginator]_vars

\* C20: every page Paginator.pages returns has at most max_size codepoints,
\* max_size being the argument of the constructor, prefix and suffix
\* included.
C20_PagesFitMaxSize ==
    last.op = "pages"
        => \A i \in 1..Len(last.ret) :
              Len(last.ret[i]) <= paginator.max_size + Len(paginator.suffix)

\* C21: add_line raises RuntimeError exactly when the line does not fit a
\* page on its own (the page of prefix, line and suffix has more than the
\* constructor's max_size codepoints), and then the finished pages, the
\* current page and the running count are unchanged.
C21_TooLongLineRaises ==
    [][ last'.op = "add_line"
            => /\ last'.raised \in {NoError, "RuntimeError"}
               /\ last'.raised = "RuntimeError"
                    <=> Len(join(<<paginator.prefix, last'.line, paginator.suffix>>))
                            > paginator.max_size + Len(paginator.suffix)
               /\ last'.raised = "RuntimeError" => paginator' = paginator ]_vars

\* C21: a line of three codepoints was refused by a paginator with room for
\* two that holds a finished page and a line on its current page.
C21_Witness ==
    /\ last.op = "add_line" /\ last.raised = "RuntimeError"
    /\ Len(last.line) = 3
    /\ Len(paginator._pages) = 1
    /\ Len(paginator._current_page) = 2

(***************************************************************************)
(* Channels: the sorted views                                              *)
(***************************************************************************)
CategoryIds == {31, 32}

\* list.sort(key=...) on a list of [key, item] pairs: ascending by key and
\* stable, an item going behind the items of equal key already placed.  The
\* keys are tuples of integers in Python's order: the first differing
\* component decides, a proper prefix is smaller.
RECURSIVE Sort(_)
Sort(pairs) ==
    LET RECURSIVE LexLess(_, _)
        LexLess(a, b) ==
            IF b = <<>> THEN FALSE
            ELSE IF a = <<>> THEN TRUE
            ELSE IF a[1] # b[1] THEN a[1] < b[1]
            ELSE LexLess(Tail(a), Tail(b))
        RECURSIVE Insert(_, _)
        Insert(sorted, x) ==
            IF sorted = <<>> THEN <<x>>
            ELSE IF LexLess(x.key, sorted[1].key) THEN <<x>> \o sorted
            ELSE <<sorted[1]>> \o Insert(Tail(sorted), x)
    IN  IF pairs = <<>> THEN <<>>
        ELSE Insert(Sort(SubSeq(pairs, 1, Len(pairs) - 1)), pairs[Len(pairs)])

\* self._channels.values(): the channels in the dict's order, each with its id.
ChannelValues(g) ==
    [i \in 1..Len(g._channel_keys) |->
        [id |-> g._channel_keys[i],
         type |-> g._channels[g._channel_keys[i]].type,
         position |-> g._channels[g._channel_keys[i]].position,
         category_id |-> g._channels[g._channel_keys[i]].category_id]]

\* A sort key that leaves out the id: a faulty variant of ChannelKey.
ChannelKeyPositionOnly(c) == <<c.position>>

\* key=lambda c: (c.position, c.id)
ChannelKey(c) == <<c.position, c.id>>

\* [ch for ch in self._channels.values() if isinstance(ch, <kind>)], sorted
\* by ChannelKey; the result lists the channels by id.
ChannelsOfKind(g, kind) ==
    LET r == SelectSeq(ChannelValues(g), LAMBDA ch : ch.type = kind)
        sorted == Sort([i \in 1..Len(r) |-> [key |-> ChannelKey(r[i]), item |-> r[i].id]])
    IN  [i \in 1..Len(sorted) |-> sorted[i].item]

\* Guild.text_channels, Guild.voice_channels, Guild.categories
text_channels(g) == ChannelsOfKind(g, "text")
voice_channels(g) == ChannelsOfKind(g, "voice")
categories(g) == ChannelsOfKind(g, "category")

\* Guild.by_category: the channels that are no category are grouped by
\* category_id; each group is paired with the cached channel of that id (None
\* when the id is None or not cached); the pairs are sorted by the category's
\* (position, id), (-1, -1) for None, and then by the group itself, and
\* comparing two groups of channels raises TypeError; each group is sorted by
\* (not text, position, id).  The grouping loop yields the category ids in
\* order of first appearance.
by_category(g) ==
    LET kids == SelectSeq(ChannelValues(g), LAMBDA ch : ch.type # "category")
        RECURSIVE GroupKeys(_, _)
        GroupKeys(rest, seen) ==
            IF rest = <<>> THEN seen
            ELSE GroupKeys(Tail(rest),
                           IF \E i \in 1..Len(seen) : seen[i] = rest[1].category_id
                           THEN seen ELSE Append(seen, rest[1].category_id))
        keys == GroupKeys(kids, <<>>)
        Cached(k) == k # Nothing /\ The(k) \in DOMAIN g._channels
        KeyOf(k) == IF Cached(k)
                    THEN <<g._channels[The(k)].position, The(k)>>
                    ELSE <<-1, -1>>
        Group(k) ==
            LET v == SelectSeq(kids, LAMBDA ch : ch.category_id = k)
                sorted == Sort([i \in 1..Len(v) |->
                            [key |-> <<IF v[i].type = "text" THEN 0 ELSE 1,
                                       v[i].position, v[i].id>>,
                             item |-> v[i].id]])
            IN  [i \in 1..Len(sorted) |-> sorted[i].item]
        as_list == Sort([i \in 1..Len(keys) |->
                        [key |-> KeyOf(keys[i]),
                         item |-> [category |-> IF Cached(keys[i]) THEN keys[i]
                                                ELSE Nothing,
                                   channels |-> Group(keys[i])]]])
    IN  IF \E i, j \in 1..Len(keys) : i # j /\ KeyOf(keys[i]) = KeyOf(keys[j])
        THEN [ret |-> <<>>, raised |-> "TypeError"]
        ELSE [ret |-> [i \in 1..Len(as_list) |-> as_list[i].item],
              raised |-> NoError]

\* A channel is cached: Guild._add_channel.
AddChannel(channel) ==
    /\ guild' = _add_channel(guild, channel)
    /\ last' = [op |-> "add_channel", channel |-> channel, raised |-> NoError]
    /\ UNCHANGED <<session, request, paginator, embed>>

\* A channel is dropped from the cache: Guild._remove_channel.
RemoveChannel(id) ==
    /\ guild' = _remove_channel(guild, id)
    /\ last' = [op |-> "remove_channel", id |-> id, raised |-> NoError]
    /\ UNCHANGED <<session, request, paginator, embed>>

\* The channels a guild is given: text and voice channels under the channel
\* ids, with or without a category, and categories under the category ids.
NextChannels ==
    \/ \E channel \in
            [id : ChannelIds, type : {"text", "voice"}, position : 0..1,
             category_id : {Nothing} \cup {Some(c) : c \in CategoryIds}]
            \cup [id : CategoryIds, type : {"category"}, position : 0..1,
                  category_id : {Nothing}] :
          AddChannel(channel)
    \/ \E id \in ChannelIds \cup CategoryIds : RemoveChannel(id)

SpecChannels == InitVoice /\ [][NextChannels]_vars

\* C22: text_channels, voice_channels and categories return exactly the
\* cached channels of their kind ascending by (position, id), and return the
\* same list for every insertion order of the channels (every order in which
\* the dict could hold the same keys).
C22_ViewsSortedByPositionAndId ==
    /\ LET \* A list of channel ids holds exactly the cached channels of a
           \* kind, each once, ascending by (position, id).
           SortedViewOf(g, view, kind) ==
               /\ { view[i] : i \in 1..Len(view) }
                       = { id \in DOMAIN g._channels : g._channels[id].type = kind }
               /\ \A i, j \in 1..Len(view) : i < j =>
                       \/ g._channels[view[i]].position < g._channels[view[j]].position
                       \/ /\ g._channels[view[i]].position = g._channels[view[j]].position
                          /\ view[i] < view[j]
       IN  /\ SortedViewOf(guild, text_channels(guild), "text")
           /\ SortedViewOf(guild, voice_channels(guild), "voice")
           /\ SortedViewOf(guild, categories(guild), "category")
    /\ \A o \in { f \in [1..Len(guild._channel_keys) -> DOMAIN guild._channels] :
                    \A i, j \in 1..Len(guild._channel_keys) : f[i] = f[j] => i = j } :
        LET other == [guild EXCEPT !._channel_keys = o]
        IN  /\ text_channels(other) = text_channels(guild)
            /\ voice_channels(other) = voice_channels(guild)
            /\ categories(other) = categories(guild)

\* C22: two text channels at the same position, the one with the larger id
\* cached first, are listed by id.
C22_Witness ==
    /\ guild._channel_keys = <<22, 21>>
    /\ guild._channels[21].type = "text" /\ guild._channels[22].type = "text"
    /\ guild._channels[21].position = guild._channels[22].position
    /\ text_channels(guild) = <<21, 22>>

\* C23: by_category raises nothing and returns every cached category exactly
\* once, a category without channels included, each with the cached channels
\* that name it, and the channels without a category under None as the first
\* element.
C23_EveryCategoryOnce ==
    LET r == by_category(guild)
        Kids(k) == { id \in DOMAIN guild._channels :
                        /\ guild._channels[id].type # "category"
                        /\ guild._channels[id].category_id = k }
    IN  /\ r.raised = NoError
        /\ \A c \in DOMAIN guild._channels :
              guild._channels[c].type = "category"
                => Cardinality({ i \in 1..Len(r.ret) : r.ret[i].category = Some(c) }) = 1
        /\ \A i \in 1..Len(r.ret) :
              /\ { r.ret[i].channels[n] : n \in 1..Len(r.ret[i].channels) }
                    = Kids(r.ret[i].category)
              /\ r.ret[i].category = Nothing => i = 1
        /\ Kids(Nothing) # {} => \E i \in 1..Len(r.ret) : r.ret[i].category = Nothing

(***************************************************************************)
(* Guild.chunked                                                           *)
(***************************************************************************)
\* Guild.chunked that compares with >= and has no test for a missing count:
\* a faulty variant of chunked.
chunked_at_least(g) ==
    \/ g._member_count = Nothing
    \/ The(g._member_count) >= Cardinality(DOMAIN g._members)

\* Guild.chunked: count = getattr(self, '_member_count', None); False when
\* it is None, else count == len(self._members).
chunked(g) ==
    IF g._member_count = Nothing THEN FALSE
    ELSE The(g._member_count) = Cardinality(DOMAIN g._members)

\* C24: in every state reached by member-add and member-remove events,
\* chunked is true exactly when the member count is known and equals the
\* number of members in the members map, and false when it is unknown.
C24_ChunkedIffCountMatches ==
    /\ chunked(guild) <=> \E n \in guild._member_count :
                              n = Cardinality(DOMAIN guild._members)
    /\ guild._member_count = Nothing => ~chunked(guild)

\* C24: a second member joined a guild that counted one member and held
\* it; the guild counts two, holds two and is chunked.
C24_Witness ==
    /\ last.op = "member_add"
    /\ guild._member_count = Some(2)
    /\ Cardinality(DOMAIN guild._members) = 2
    /\ chunked(guild)

(***************************************************************************)
(* Guild.large                                                             *)
(***************************************************************************)
\* Guild.large: the _large slot when it is not None; else whether the member
\* count, or without one (AttributeError) the number of cached members,
\* reaches the threshold.
large(g) ==
    IF g._large = Nothing
    THEN IF g._member_count # Nothing
         THEN The(g._member_count) >= LargeThreshold
         ELSE Cardinality(DOMAIN g._members) >= LargeThreshold
    ELSE The(g._large)

\* C25: a guild built from a snapshot with a member_count is large exactly
\* when it has more than 250 members, and not large with 250 or fewer.
C25_LargeAboveThreshold ==
    (last.op = "guild_create" /\ last.data.member_count # Nothing)
        => (large(guild) <=> The(last.data.member_count) > LargeThreshold)

(***************************************************************************)
(* Guild.icon_url and Guild.splash_url                                     *)
(***************************************************************************)

\* utils.valid_icon_size: a power of two between 16 and 2048.
valid_icon_size(size) == size \in {16, 32, 64, 128, 256, 512, 1024, 2048}

\* Guild.icon_url_as(format=..., size=...); format must be one of
\* VALID_ICON_FORMATS.  A CDN URL,
\* 'https://cdn.discordapp.com/<kind>/<id>/<hash>.<format>?size=<size>', is
\* given by its parts; the empty string is the empty sequence.
icon_url_as(g, format, size) ==
    IF ~valid_icon_size(size) \/ format \notin {"jpeg", "jpg", "webp", "png"}
    THEN [ret |-> <<>>, raised |-> "InvalidArgument"]
    ELSE IF g.icon = None THEN [ret |-> <<>>, raised |-> NoError]
    ELSE [ret |-> <<"icons", g.id, g.icon, format, size>>, raised |-> NoError]

\* Guild.splash_url_as(format=..., size=...)
splash_url_as(g, format, size) ==
    IF ~valid_icon_size(size) \/ format \notin {"jpeg", "jpg", "webp", "png"}
    THEN [ret |-> <<>>, raised |-> "InvalidArgument"]
    ELSE IF g.splash = None THEN [ret |-> <<>>, raised |-> NoError]
    ELSE [ret |-> <<"splashes", g.id, g.splash, format, size>>, raised |-> NoError]

\* Guild.splash_url: return self.icon_url_as()
splash_url(g) == icon_url_as(g, "webp", 1024)

\* C26: splash_url is the result of splash_url_as with its default arguments
\* (format webp, size 2048), and the empty string exactly when the guild has
\* no splash, whatever its icon.
C26_SplashUrlIsOfSplash ==
    /\ splash_url(guild) = splash_url_as(guild, "webp", 2048)
    /\ splash_url(guild).ret = <<>> <=> guild.splash = None

(***************************************************************************)
(* Embed fields (src/discord api/build/lib/discord/embeds.py)              *)
(*                                                                         *)
(* The _fields slot is unset (Nothing) until a field is added or the      *)
(* fields are cleared; then it holds the list of fields.                   *)
(***************************************************************************)
\* Bound: the fields an embed is given.
MaxFields == 3

\* Embed.add_field(name=..., value=..., inline=...)
add_field(e, name, value, inline) ==
    LET field == [inline |-> inline, name |-> name, value |-> value]
    IN  IF e._fields = Nothing THEN [e EXCEPT !._fields = Some(<<field>>)]
        ELSE [e EXCEPT !._fields = Some(Append(The(@), field))]

\* Embed.clear_fields
clear_fields(e) == [e EXCEPT !._fields = Some(<<>>)]

\* del list[index] for an index the list holds: index >= 0 counts from the
\* front, index < 0 from the back.
Del(list, index) ==
    LET at == IF index >= 0 THEN index + 1 ELSE Len(list) + index + 1
    IN  SubSeq(list, 1, at - 1) \o SubSeq(list, at + 1, Len(list))

\* Embed.remove_field that lets the IndexError of an index out of bounds
\* through: a faulty variant of remove_field.
remove_field_raising(e, index) ==
    IF e._fields = Nothing THEN [e |-> e, raised |-> NoError]
    ELSE IF index >= Len(The(e._fields)) \/ index < -Len(The(e._fields))
    THEN [e |-> e, raised |-> "IndexError"]
    ELSE [e |-> [e EXCEPT !._fields = Some(Del(The(@), index))], raised |-> NoError]

\* Embed.remove_field(index): del self._fields[index], with the
\* AttributeError of an unset slot and the IndexError of an index out of
\* bounds swallowed.
remove_field(e, index) ==
    IF e._fields = Nothing THEN [e |-> e, raised |-> NoError]
    ELSE IF index >= Len(The(e._fields)) \/ index < -Len(The(e._fields))
    THEN [e |-> e, raised |-> NoError]
    ELSE [e |-> [e EXCEPT !._fields = Some(Del(The(@), index))], raised |-> NoError]

\* Embed.fields: the fields, none for an unset slot.
fields(e) == IF e._fields = Nothing THEN <<>> ELSE The(e._fields)

AddField(name, inline) ==
    /\ Len(fields(embed)) < MaxFields
    /\ embed' = add_field(embed, name, "value", inline)
    /\ last' = [op |-> "add_field", name |-> name, raised |-> NoError]
    /\ UNCHANGED <<guild, session, request, paginator>>

ClearFields ==
    /\ embed' = clear_fields(embed)
    /\ last' = [op |-> "clear_fields", raised |-> NoError]
    /\ UNCHANGED <<guild, session, request, paginator>>

RemoveField(index) ==
    /\ LET r == remove_field(embed, index)
       IN  /\ embed' = r.e
           /\ last' = [op |-> "remove_field", index |-> index,
                       had |-> Len(fields(embed)), raised |-> r.raised]
    /\ UNCHANGED <<guild, session, request, paginator>>

\* Fields are added, cleared and removed; the index of a removal runs from
\* below the list to beyond it.
NextEmbed ==
    \/ \E name \in {"a", "b", "c"}, inline \in BOOLEAN : AddField(name, inline)
    \/ ClearFields
    \/ \E index \in -(MaxFields + 1)..(MaxFields + 1) : RemoveField(index)

SpecEmbed == InitVoice /\ [][NextEmbed]_vars

Shift == 22

LimbBits == Shift \div 2
Base == 2 ^ LimbBits

\* Bound: the milliseconds within the second of the times a snowflake is
\* built for.
MaxMillisecond == 4

RECURSIVE Big(_)
\* The integer n >= 0
Big(n) == IF n = 0 THEN <<>> ELSE <<n % Base>> \o Big(n \div Base)

RECURSIVE Trim(_)
\* The limbs without leading zeros.
Trim(a) ==
    IF a = <<>> THEN a
    ELSE IF a[Len(a)] = 0 THEN Trim(SubSeq(a, 1, Len(a) - 1)) ELSE a

\* a + b
BigAdd(a, b) ==
    LET limb(x, i) == IF i <= Len(x) THEN x[i] ELSE 0
        RECURSIVE AddFrom(_, _)
        AddFrom(i, carry) ==
            IF i > Len(a) /\ i > Len(b) THEN Big(carry)
            ELSE LET s == limb(a, i) + limb(b, i) + carry
                 IN  <<s % Base>> \o AddFrom(i + 1, s \div Base)
    IN  Trim(AddFrom(1, 0))

\* a - b, for a >= b
BigSub(a, b) ==
    LET limb(x, i) == IF i <= Len(x) THEN x[i] ELSE 0
        RECURSIVE SubFrom(_, _)
        SubFrom(i, borrow) ==
            IF i > Len(a) THEN <<>>
            ELSE LET d == limb(a, i) - limb(b, i) - borrow
                 IN  <<(d + Base) % Base>> \o SubFrom(i + 1, IF d < 0 THEN 1 ELSE 0)
    IN  Trim(SubFrom(1, 0))

\* a * k, for an integer 0 <= k <= 1000000
BigMul(a, k) ==
    LET RECURSIVE MulFrom(_, _)
        MulFrom(i, carry) ==
            IF i > Len(a) THEN Big(carry)
            ELSE LET p == a[i] * k + carry
                 IN  <<p % Base>> \o MulFrom(i + 1, p \div Base)
    IN  Trim(MulFrom(1, 0))

\* divmod(a, k), for an integer 0 < k <= 1000000
BigDivMod(a, k) ==
    LET RECURSIVE DivFrom(_, _, _)
        DivFrom(i, rem, q) ==
            IF i = 0 THEN [q |-> Trim(q), r |-> rem]
            ELSE DivFrom(i - 1, (rem * Base + a[i]) % k,
                         <<(rem * Base + a[i]) \div k>> \o q)
    IN  DivFrom(Len(a), 0, <<>>)

\* a << n
LeftShift(a, n) ==
    IF a = <<>> THEN a
    ELSE [i \in 1..(n \div LimbBits) |-> 0] \o BigMul(a, 2 ^ (n % LimbBits))

\* a >> n
RightShift(a, n) ==
    BigDivMod(SubSeq(a, n \div LimbBits + 1, Len(a)), 2 ^ (n % LimbBits)).q

\* a / 2^n rounded to the nearest integer, a tie to the even one.
RoundHalfEven(a, n) ==
    LET q == RightShift(a, n)
        rem == BigSub(a, LeftShift(q, n))
        half == IF n = 0 THEN <<>> ELSE LeftShift(Big(1), n - 1)
        RECURSIVE LessFrom(_)
        LessFrom(i) ==
            IF i = 0 THEN FALSE
            ELSE IF half[i] # rem[i] THEN half[i] < rem[i] ELSE LessFrom(i - 1)
        above == IF Len(half) # Len(rem) THEN Len(half) < Len(rem)
                 ELSE LessFrom(Len(half))
        odd == q # <<>> /\ q[1] % 2 = 1
    IN  IF n > 0 /\ (above \/ (rem = half /\ odd)) THEN BigAdd(q, Big(1)) ELSE q

\* The float nearest to m * 2^e: m rounded to 53 bits.
Float(m, e) ==
    LET RECURSIVE Bits(_)
        Bits(n) == IF n = 0 THEN 0 ELSE 1 + Bits(n \div 2)
        bit_length == IF m = <<>> THEN 0
                      ELSE (Len(m) - 1) * LimbBits + Bits(m[Len(m)])
    IN  IF bit_length <= 53 THEN [m |-> m, e |-> e]
        ELSE [m |-> RoundHalfEven(m, bit_length - 53), e |-> e + (bit_length - 53)]

\* The float a / k of two integers, correctly rounded: the quotient is
\* taken with 77 further bits and one bit that tells whether a remainder
\* was left, then rounded.
TrueDivide(a, k) ==
    LET d == BigDivMod(LeftShift(a, 77), k)
        sticky == BigAdd(LeftShift(d.q, 1), Big(IF d.r = 0 THEN 0 ELSE 1))
    IN  Float(sticky, -78)

DISCORD_EPOCH == BigMul(Big(1420070400), 1000)

\* snowflake_time(id), as the microseconds from 1970-01-01 to the datetime
\* returned.  datetime.utcfromtimestamp takes the whole seconds of the
\* float and rounds frac * 1e6 to whole microseconds, a tie to the even one.
snowflake_time(id) ==
    LET t == TrueDivide(BigAdd(RightShift(id, Shift), DISCORD_EPOCH), 1000)
        whole == RightShift(t.m, -t.e)
        frac == [m |-> BigSub(t.m, LeftShift(whole, -t.e)), e |-> t.e]
        scaled == Float(BigMul(frac.m, 1000000), frac.e)
        us == RoundHalfEven(scaled.m, -scaled.e)
    IN  BigAdd(BigMul(whole, 1000000), us)

\* The microseconds of the timedelta datetime_obj - datetime(1970, 1, 1).
Microseconds(td) ==
    BigAdd(BigMul(BigAdd(BigMul(Big(td.days), 86400), Big(td.seconds)), 1000000),
           Big(td.microseconds))

\* time_snowflake(datetime_obj, high), datetime_obj given by the
\* timedelta from 1970-01-01 to it.  total_seconds() is the float
\* microseconds / 10**6; the product with 1000 and the difference to the
\* epoch are floats; int() truncates.
time_snowflake(td, high) ==
    LET unix_seconds == TrueDivide(Microseconds(td), 1000000)
        millis == Float(BigMul(unix_seconds.m, 1000), unix_seconds.e)
        since == Float(BigSub(millis.m, LeftShift(DISCORD_EPOCH, -millis.e)), millis.e)
        discord_millis == RightShift(since.m, -since.e)
    IN  BigAdd(LeftShift(discord_millis, Shift),
               IF high THEN Big(2 ^ Shift - 1) ELSE Big(0))

SnowflakeTime(id) ==
    /\ last' = [op |-> "snowflake_time", id |-> id, ret |-> snowflake_time(id),
                raised |-> NoError]
    /\ UNCHANGED <<guild, session, request, paginator, embed>>

TimeSnowflake(td, high) ==
    /\ last' = [op |-> "time_snowflake", datetime_obj |-> td, high |-> high,
                ret |-> time_snowflake(td, high), raised |-> NoError]
    /\ UNCHANGED <<guild, session, request, paginator, embed>>

\* Snowflakes of up to 64 bits: the 42 bits of the time from all zero to
\* all one, the 22 low bits all zero, one or all one.  Times of whole
\* milliseconds from the Discord epoch (2015-01-01) on, in days and seconds
\* since 1970-01-01 (day 24855, second 11648 is 2038-01-19 03:14:08, 2^31
\* seconds since 1970).
NextSnowflake ==
    \/ \E k \in (0..7) \cup {1023}, s \in {0, 16, 32}, low \in {0, 1, 2 ^ Shift - 1},
          top \in BOOLEAN :
          SnowflakeTime(BigAdd(LeftShift(IF top THEN BigSub(LeftShift(Big(1), 64 - Shift), Big(1))
                                         ELSE LeftShift(Big(k), s), Shift),
                               Big(low)))
    \/ \E days \in {16436, 20000, 24855, 25452}, seconds \in {0, 11648, 86399},
          ms \in 0..MaxMillisecond, high \in BOOLEAN :
          TimeSnowflake([days |-> days, seconds |-> seconds,
                         microseconds |-> ms * 1000], high)

SpecSnowflake == InitVoice /\ [][NextSnowflake]_vars

\* C28: the creation time of a snowflake is (id >> 22) + EPOCH_MS
\* milliseconds, and the id built for a time t of whole milliseconds has
\* (id >> 22) + EPOCH_MS = t, its low 22 bits all zero for high=False and
\* all one for high=True.
C28_SnowflakeTimeRoundTrip ==
    /\ last.op = "snowflake_time" =>
          last.ret = BigMul(BigAdd(RightShift(last.id, Shift), DISCORD_EPOCH), 1000)
    /\ last.op = "time_snowflake" =>
          /\ BigMul(BigAdd(RightShift(last.ret, Shift), DISCORD_EPOCH), 1000)
                = Microseconds(last.datetime_obj)
          /\ BigSub(last.ret, LeftShift(RightShift(last.ret, Shift), Shift))
                = IF last.high THEN Big(2 ^ Shift - 1) ELSE Big(0)

(***************************************************************************)
(* Voice states: an unknown channel                                        *)
(***************************************************************************)
\* C29: a voice-state-update whose channel id is not in the guild's channel
\* map is dropped: the voice-state map is as it was, the user's entry
\* neither changed nor evicted and no entry created.
C29_UnknownChannelDropped ==
    [][ ( /\ last'.op = "voice_state_update"
          /\ last'.channel_id # Nothing
          /\ \A id \in last'.channel_id : id \notin DOMAIN guild._channels )
        => guild'._voice_states = guild._voice_states ]_vars

(***************************************************************************)
(* Guild update: the entity maps                                           *)
(***************************************************************************)
\* C30: a guild-update whose payload has no roles, channels, members or
\* voice_states list leaves the roles, channels, members and voice-state
\* maps unchanged, the same objects under the same ids.
C30_AbsentListsKeepMaps ==
    [][ ( /\ last'.op = "guild_update"
          /\ last'.data.roles = <<>> /\ last'.data.channels = <<>>
          /\ last'.data.members = <<>> /\ last'.data.voice_states = <<>> )
        => /\ guild'._roles = guild._roles
           /\ \A id \in DOMAIN guild._roles :
                 guild'.objs[guild'._roles[id]] = guild.objs[guild._roles[id]]
           /\ guild'._channels = guild._channels
           /\ guild'._members = guild._members
           /\ guild'._voice_states = guild._voice_states ]_vars

(***************************************************************************)
(* Channel creation (src/discord api/discord/guild.py, lines 556-681)      *)
(***************************************************************************)

\* Guild._create_channel without the isinstance checks: a faulty variant
\* that hands any overwrites to the HTTP client.
_create_channel_unchecked(g, overwrites, channel_type, category) ==
    [requests |-> <<[guild_id |-> g.id, type |-> channel_type,
                     parent_id |-> category,
                     permission_overwrites |->
                        IF overwrites.type = "dict" THEN overwrites.items
                        ELSE <<>>]>>,
     raised |-> NoError]

\* Guild._create_channel: overwrites is None, a dict of target -> perm, or
\* something else; the payloads are built before the HTTP client is called,
\* and the call is what the method returns (the request it issues).
_create_channel(g, overwrites, channel_type, category) ==
    LET items == IF overwrites.type = "NoneType" THEN <<>> ELSE overwrites.items
        perms == [i \in 1..Len(items) |->
                    [allow |-> items[i].perm.allow, deny |-> items[i].perm.deny,
                     id |-> items[i].target.id,
                     type |-> IF items[i].target.type = "Role" THEN "role"
                              ELSE "member"]]
    IN  IF overwrites.type \notin {"NoneType", "dict"}
        THEN [requests |-> <<>>, raised |-> "InvalidArgument"]
        ELSE IF \E i \in 1..Len(items) :
                    items[i].perm.type # "PermissionOverwrite"
        THEN [requests |-> <<>>, raised |-> "InvalidArgument"]
        ELSE [requests |-> <<[guild_id |-> g.id, type |-> channel_type,
                              parent_id |-> category,
                              permission_overwrites |-> perms]>>,
              raised |-> NoError]

\* Guild.create_text_channel, create_voice_channel and create_category
\* (channel_type "text", "voice", "category"; create_category passes no
\* category): await the request, build the channel from the response data,
\* store it under its id.  response is what the awaited request gives.
create_channel(g, channel_type, overwrites, category, response) ==
    LET call == _create_channel(g, overwrites, channel_type,
                                IF channel_type = "category" THEN Nothing
                                ELSE category)
        channel == [id |-> response.data.id, type |-> channel_type,
                    position |-> response.data.position,
                    category_id |-> response.data.parent_id]
    IN  IF call.raised # NoError
        THEN [g |-> g, requests |-> call.requests, ret |-> Nothing,
              raised |-> call.raised]
        ELSE IF response.error # NoError
        THEN [g |-> g, requests |-> call.requests, ret |-> Nothing,
              raised |-> response.error]
        ELSE [g |-> _add_channel(g, channel), requests |-> call.requests,
              ret |-> Some(channel.id), raised |-> NoError]

\* A channel is created through the API: one of the three create methods
\* runs to its end with the response the server gives.
CreateChannel(channel_type, overwrites, category, response) ==
    LET r == create_channel(guild, channel_type, overwrites, category, response)
    IN  /\ guild' = r.g
        /\ last' = [op |-> "create_channel", channel_type |-> channel_type,
                    overwrites |-> overwrites, response |-> response,
                    requests |-> r.requests, ret |-> r.ret, raised |-> r.raised]
        /\ UNCHANGED <<session, request, paginator, embed>>
\* The create calls a guild is given: overwrites of every shape (None, not
\* a dict, a dict of PermissionOverwrite, a dict with another value), and a
\* request that fails or is answered with the new channel's data.
NextCreate ==
    \/ \E channel_type \in {"text", "voice", "category"},
          overwrites \in
            {[type |-> "NoneType", items |-> <<>>],
             [type |-> "list", items |-> <<>>]}
            \cup [type : {"dict"},
                  items : {<<>>} \cup
                    {<<[target |-> t, perm |-> p]>> :
                        t \in {[type |-> "Role", id |-> GuildId]},
                        p \in {[type |-> "PermissionOverwrite",
                                allow |-> 1, deny |-> 2],
                               [type |-> "int", allow |-> 0, deny |-> 0]}}],
          category \in {Nothing, Some(31)} :
          \E response \in
            {[error |-> "HTTPException",
              data |-> [id |-> 0, position |-> 0, parent_id |-> Nothing]]}
            \cup [error : {NoError},
                  data : [id : {22, 31}, position : {0},
                          parent_id : {IF channel_type = "category"
                                       THEN Nothing ELSE category}]] :
            CreateChannel(channel_type, overwrites, category, response)
    \/ \E id \in {22, 31} : RemoveChannel(id)

SpecCreate == InitVoice /\ [][NextCreate]_vars

\* C31: a create method adds a channel to the channel map only after its
\* request was issued and answered successfully; with overwrites that are
\* not a dict, or that hold a value that is not a PermissionOverwrite,
\* InvalidArgument is raised and no request is issued; when the request
\* fails the channel map is unchanged.
C31_CreateAddsOnlyOnSuccess ==
    [][last'.op = "create_channel" =>
        LET ow == last'.overwrites
            invalid == \/ ow.type \notin {"NoneType", "dict"}
                       \/ /\ ow.type = "dict"
                          /\ \E i \in 1..Len(ow.items) :
                                ow.items[i].perm.type # "PermissionOverwrite"
            failed == last'.response.error # NoError
        IN  /\ invalid => /\ last'.raised = "InvalidArgument"
                          /\ last'.requests = <<>>
                          /\ guild' = guild
            /\ ~invalid => Len(last'.requests) = 1
            /\ failed => /\ guild'._channels = guild._channels
                         /\ guild'._channel_keys = guild._channel_keys
            /\ guild'._channels # guild._channels =>
                    /\ Len(last'.requests) = 1
                    /\ ~failed
                    /\ last'.raised = NoError
            /\ (~invalid /\ ~failed) =>
                    /\ last'.response.data.id \in DOMAIN guild'._channels
                    /\ guild'._channels[last'.response.data.id].type
                            = last'.channel_type]_vars

\* C31 witnesses: a create that failed at the server, one refused for its
\* overwrites, and one that stored its channel.
C31_Witness ==
    /\ last.op = "create_channel"
    /\ last.raised = NoError
    /\ Len(last.requests) = 1
    /\ last.requests[1].permission_overwrites # <<>>
    /\ The(last.ret) \in DOMAIN guild._channels

(***************************************************************************)
(* Guild.member_count                                                      *)
(***************************************************************************)
\* Guild.member_count: return self._member_count, a slot that is assigned
\* only once a payload carried a truthy member_count (AttributeError before).
member_count(g) ==
    IF g._member_count = Nothing
    THEN [ret |-> Nothing, raised |-> "AttributeError"]
    ELSE [ret |-> g._member_count, raised |-> NoError]

\* C32: building a guild from a snapshot does not raise for any member_count,
\* 0 and absent included, and on the guild built member_count and large can
\* be read without raising.
C32_BuildAndReadNeverRaise ==
    /\ \A mc \in {Nothing, Some(0), Some(2), Some(LargeThreshold)} :
            NewGuild(Snapshot(<<[id |-> GuildId, position |-> 0]>>, mc)).raised
                = NoError
    /\ last.op = "guild_create" =>
            /\ last.raised = NoError
            /\ member_count(guild).raised = NoError
            /\ large(guild) \in BOOLEAN

\* C33: every attempt of one request call sends the verb, headers and body
\* of the first attempt (the URL is a parameter no statement assigns); a
\* retry never sends the text of a previous response.
C33_RetrySendsFirstRequest ==
    request.pc # "idle" =>
        \A i \in 1..Len(request.sent) :
            /\ request.sent[i] = request.sent[1]
            /\ request.sent[i].data \notin {Text, loads[Text]}

\* C34: a request call makes at most five HTTP attempts whatever the server
\* answers: every pass of the loop sends exactly one request, a response
\* that is retried (429, 500, 502) uses up one of the five passes, and after
\* the fifth attempt the call has ended.
C34_AtMostFiveAttempts ==
    [][(request.pc = "loop" /\ request'.pc # "idle") =>
            /\ Len(request'.sent) = Len(request.sent) + 1
            /\ Len(request'.sent) <= Tries
            /\ Len(request'.sent) = Tries => request'.pc = "done"
            /\ request'.pc = "loop" =>
                    /\ request'.status \in {429, 500, 502}
                    /\ request'.tries = request.tries + 1
                    /\ request'.tries = Len(request'.sent)]_vars

\* C34: five attempts were all answered with a status that is retried, and
\* the call is over.
C34_Witness ==
    /\ request.pc = "done"
    /\ Len(request.sent) = Tries
    /\ request.status \in {429, 500, 502}
    /\ request.outcome = "returned"

(***************************************************************************)
(* Webhook.send with a file (src/discord api/discord/webhook.py, 563-653)  *)
(***************************************************************************)
\* Webhook.send(content, wait=..., file=file) from `if file is not None` on:
\*     try:
\*         to_pass = (file.filename, file.open_file(), ...)
\*         return self._adapter.execute_webhook(wait=wait, file=to_pass, ...)
\*     finally:
\*         file.close()
\* execute_webhook (lines 106-119) builds the multipart and calls
\* self.request('POST', url, multipart=..., payload=None).
\* RequestsWebhookAdapter.request is a function: the HTTP request is carried
\* out inside the call and ends as `outcome` says.  AsyncWebhookAdapter's is
\* a coroutine function: the call makes a coroutine and sends nothing, and
\* handle_execution_response wraps it in the coroutine that send returns.
\* open_file can raise (`opens` is FALSE).  `events` lists in order what was
\* done to the file and to the network, each with the state the file was in.
send(adapter, content, wait, file, opens, outcome) ==
    LET Did(s, op) == [s EXCEPT !.events = Append(@, [op |-> op, file |-> s.file])]
        start == [pc |-> "send", adapter |-> adapter, wait |-> wait,
                  multipart |-> [file |-> file,
                                 payload_json |-> [content |-> content,
                                                   tts |-> FALSE]],
                  file |-> "unopened", events |-> <<>>, outcome |-> "pending"]
        open_file(s) ==
            IF opens THEN Did([s EXCEPT !.file = "open"], "open_file")
            ELSE [Did(s, "open_file") EXCEPT !.outcome = "OSError"]
        execute_webhook(s) ==
            IF s.outcome # "pending" THEN s
            ELSE IF adapter = "async" THEN [s EXCEPT !.outcome = "coroutine"]
            ELSE [Did(s, "request") EXCEPT !.outcome = outcome]
        close(s) == Did([s EXCEPT !.file = "closed"], "close")
        finally == close(execute_webhook(open_file(start)))
    IN  [finally EXCEPT !.pc = IF finally.outcome = "coroutine" THEN "awaiting"
                               ELSE "done"]

\* Webhook.send is called with a file.
WebhookSend(adapter, content, wait, file, opens, outcome) ==
    /\ request.pc \in {"idle", "done"}
    /\ request' = send(adapter, content, wait, file, opens, outcome)
    /\ last' = [op |-> "send", adapter |-> adapter, content |-> content,
                file |-> file, raised |-> IF request'.outcome \in {"returned", "coroutine"}
                                          THEN NoError ELSE request'.outcome]
    /\ UNCHANGED <<guild, session, paginator, embed>>

\* The coroutine send returned is awaited: handle_execution_response awaits
\* the request coroutine (lines 184-186), which now carries out the HTTP
\* request (lines 138-183) with the file as it is.
WebhookAwait(outcome) ==
    /\ request.pc = "awaiting"
    /\ request' = [request EXCEPT
                        !.pc = "done",
                        !.events = Append(@, [op |-> "request", file |-> request.file]),
                        !.outcome = outcome]
    /\ last' = [op |-> "await", outcome |-> outcome,
                raised |-> IF outcome = "returned" THEN NoError ELSE outcome]
    /\ UNCHANGED <<guild, session, paginator, embed>>

\* Sends through both adapters, with a file that opens or does not, and a
\* request that returns or raises; a request whose file is closed may also
\* fail on reading it.
NextSend ==
    \/ \E adapter \in {"async", "requests"}, content \in {None, "text"},
          wait \in BOOLEAN, file \in {"a.png", "b.png", "c.txt"}, opens \in BOOLEAN,
          outcome \in {"returned", "Forbidden", "NotFound", "HTTPException"} :
          WebhookSend(adapter, content, wait, file, opens, outcome)
    \/ \E outcome \in {"returned", "Forbidden", "NotFound", "HTTPException",
                       "ValueError"} :
          WebhookAwait(outcome)

SpecSend == InitVoice /\ [][NextSend]_vars

\* C35: once send has returned or raised the file is closed, and the file is
\* closed only after the HTTP request that uploads it was carried out: no
\* request is pending or made once the file is closed, with either adapter.
C35_ClosedAfterUpload ==
    request.pc # "idle" =>
        /\ request.file = "closed"
        /\ request.events[Len(request.events)].op \in {"close", "request"}
        /\ request.pc # "awaiting"
        /\ \A i \in 1..Len(request.events) :
                request.events[i].op = "request" =>
                    request.events[i].file = "open"

(***************************************************************************)
(* Guild.default_role (src/discord api/discord/guild.py, lines 391-394)    *)
(***************************************************************************)
\* Guild.default_role, a utils.cached_slot_property('_default_role'):
\* CachedSlotProperty.__get__ returns the _default_role slot when it is
\* assigned; else it calls the function, utils.find(lambda r: r.is_default(),
\* self._roles.values()), the first role of the map that has the guild's id
\* or None, stores the value in the slot and returns it.
default_role(g) ==
    IF g._default_role # <<>>
    THEN [g |-> g, ret |-> g._default_role[1]]
    ELSE LET value == {ref \in Range(g._roles) : g.objs[ref].id = g.id}
         IN  [g |-> [g EXCEPT !._default_role = <<value>>], ret |-> value]

\* Guild.default_role is read.
DefaultRole ==
    /\ LET r == default_role(guild)
       IN  /\ guild' = r.g
           /\ last' = [op |-> "default_role", ret |-> r.ret, raised |-> NoError]
    /\ UNCHANGED <<session, request, paginator, embed>>

\* Role events as the service sends them, guild updates that carry the
\* guild's role list (none, the default role alone, or with role 2 above
\* it), and reads of default_role.
NextDefaultRole ==
    \/ \E id \in RoleIds : RoleCreate(id, BottomPosition)
    \/ \E id \in RoleIds : RoleDelete(id)
    \/ \E roles \in {r \in {<<>>, <<[id |-> GuildId, position |-> 0]>>,
                           <<[id |-> GuildId, position |-> 0],
                             [id |-> 2, position |-> 1]>>} :
                        Len(guild.objs) + Len(r) <= MaxRoleObjs} :
          GuildUpdate([UpdatePayload({}, Nothing) EXCEPT !.roles = roles])
    \/ DefaultRole

SpecDefaultRole == InitRoles /\ [][NextDefaultRole]_vars

\* C36: whatever _from_data, _add_role and _remove_role calls and reads came
\* before, default_role returns the default role stored in the roles map,
\* the object get_role returns for the guild's id, or None when the map holds
\* no default role; never a role that is not in the map.
C36_DefaultRoleIsStoredRole ==
    last.op = "default_role" =>
        /\ last.ret = get_role(guild, guild.id)
        /\ last.ret \subseteq Range(guild._roles)

====
